---- MODULE Spec2Model ----
(***************************************************************************)
(* Roster ingestion pipeline of the admin portal: the Roster page          *)
(* (pages/Roster.tsx), the API context (context/ApiContext.tsx), the       *)
(* column mapper and validator of api/mockApi.ts, and the commit path      *)
(* firebaseApi.uploadRoster -> studentsService.bulkCreate.                 *)
(*                                                                         *)
(* Strings are TLA+ strings; a character is a string of length 1.          *)
(***************************************************************************)
EXTENDS Integers, Sequences, FiniteSets, TLC

(***************************************************************************)
(* Bounds of the model.                                                    *)
(***************************************************************************)
\* how many user actions (file choice, mapping change, cell edit, save) a
\* behaviour holds
MaxEvents == 4

\* how many cells are edited in one run of the pipeline on its own
MaxPipeEdits == 2

\* how many rows a sheet has, and how many data lines a text file has
MaxSheetRows == 3
MaxCsvRows == 2

(***************************************************************************)
(* JavaScript string primitives used by the pipeline.                      *)
(***************************************************************************)
CharAt(s, i) == SubSeq(s, i, i)

Range(seq) == { seq[i] : i \in DOMAIN seq }

\* \s of the regular expressions, restricted to the characters of the model
IsWhitespace(c) == c \in {" ", "\t", "\n", "\r"}

IsDigit(c) == c \in {"0", "1", "2", "3", "4", "5", "6", "7", "8", "9"}

DigitValue(c) ==
    CASE c = "0" -> 0 [] c = "1" -> 1 [] c = "2" -> 2 [] c = "3" -> 3
      [] c = "4" -> 4 [] c = "5" -> 5 [] c = "6" -> 6 [] c = "7" -> 7
      [] c = "8" -> 8 [] c = "9" -> 9

RECURSIVE TrimStart(_)
TrimStart(s) ==
    IF Len(s) > 0 /\ IsWhitespace(Head(s)) THEN TrimStart(Tail(s)) ELSE s

RECURSIVE TrimEnd(_)
TrimEnd(s) ==
    IF Len(s) > 0 /\ IsWhitespace(CharAt(s, Len(s)))
    THEN TrimEnd(SubSeq(s, 1, Len(s) - 1))
    ELSE s

\* String.prototype.trim
Trim(s) == TrimEnd(TrimStart(s))

\* String.prototype.includes
Includes(hay, needle) ==
    \E i \in 1..(Len(hay) - Len(needle) + 1) :
        SubSeq(hay, i, i + Len(needle) - 1) = needle

\* the lower-case form of one character
LowerChar(c) ==
    CASE c = "A" -> "a" [] c = "B" -> "b" [] c = "C" -> "c" [] c = "D" -> "d"
      [] c = "E" -> "e" [] c = "F" -> "f" [] c = "G" -> "g" [] c = "H" -> "h"
      [] c = "I" -> "i" [] c = "J" -> "j" [] c = "K" -> "k" [] c = "L" -> "l"
      [] c = "M" -> "m" [] c = "N" -> "n" [] c = "O" -> "o" [] c = "P" -> "p"
      [] c = "Q" -> "q" [] c = "R" -> "r" [] c = "S" -> "s" [] c = "T" -> "t"
      [] c = "U" -> "u" [] c = "V" -> "v" [] c = "W" -> "w" [] c = "X" -> "x"
      [] c = "Y" -> "y" [] c = "Z" -> "z" [] OTHER -> c

RECURSIVE ToLowerCase(_)
ToLowerCase(s) ==
    IF s = "" THEN "" ELSE LowerChar(Head(s)) \o ToLowerCase(Tail(s))

\* s.replace(/_/g, " ")
RECURSIVE ReplaceUnderscores(_)
ReplaceUnderscores(s) ==
    IF s = "" THEN ""
    ELSE (IF Head(s) = "_" THEN " " ELSE Head(s)) \o ReplaceUnderscores(Tail(s))

\* s.split(/\s+/) on an already trimmed string: the maximal runs of
\* non-whitespace characters; the empty string splits into [""].
RECURSIVE SplitTokens(_, _)
SplitTokens(s, cur) ==
    IF s = "" THEN <<cur>>
    ELSE IF IsWhitespace(Head(s))
         THEN (IF cur = "" THEN SplitTokens(Tail(s), "")
                           ELSE <<cur>> \o SplitTokens(TrimStart(s), ""))
         ELSE SplitTokens(Tail(s), cur \o Head(s))

SplitWhitespace(s) == SplitTokens(s, "")

\* Array.prototype.join(" ")
RECURSIVE JoinSpace(_)
JoinSpace(parts) ==
    IF Len(parts) = 0 THEN ""
    ELSE IF Len(parts) = 1 THEN parts[1]
    ELSE parts[1] \o " " \o JoinSpace(Tail(parts))

(***************************************************************************)
(* utils/formatters.ts                                                     *)
(***************************************************************************)
\* phone.replace(/\D/g, "")
DigitsOnly(s) == SelectSeq(s, IsDigit)

\* the test, had it accepted every value with ten digits or more
isE164Phone_AtLeastTen(phone) ==
    /\ phone # ""
    /\ Len(DigitsOnly(phone)) >= 10

isE164Phone(phone) ==
    /\ phone # ""
    /\ Len(DigitsOnly(phone)) = 10

\* /^[^\s@]+@[^\s@]+\.[^\s@]+$/
isValidEmail(email) ==
    \E i \in 1..Len(email) : \E j \in 1..Len(email) :
        /\ CharAt(email, i) = "@"
        /\ CharAt(email, j) = "."
        /\ 1 < i /\ i + 1 < j /\ j < Len(email)
        /\ \A k \in 1..Len(email) :
              k # i => ~IsWhitespace(CharAt(email, k)) /\ CharAt(email, k) # "@"

\* parseFloat on the decimal literals of the model (optional sign, digits,
\* optional fraction; no exponent, no "Infinity"): the longest numeric
\* prefix after leading whitespace.  nan = TRUE when there is no such prefix.
RECURSIVE DigitPrefix(_)
DigitPrefix(s) ==
    IF Len(s) > 0 /\ IsDigit(Head(s)) THEN Head(s) \o DigitPrefix(Tail(s)) ELSE ""

\* The integer part saturates at ParseCap, above every range the validators
\* compare against, so the comparisons stay exact for any digit count.
ParseCap == 1000

RECURSIVE DecimalValue(_, _)
DecimalValue(digits, acc) ==
    IF digits = "" THEN acc
    ELSE IF 10 * acc + DigitValue(Head(digits)) >= ParseCap
         THEN ParseCap
         ELSE DecimalValue(Tail(digits), 10 * acc + DigitValue(Head(digits)))

parseFloat(str) ==
    LET s0 == TrimStart(str)
        neg == Len(s0) > 0 /\ Head(s0) = "-"
        s1 == IF Len(s0) > 0 /\ Head(s0) \in {"-", "+"} THEN Tail(s0) ELSE s0
        ip == DigitPrefix(s1)
        s2 == SubSeq(s1, Len(ip) + 1, Len(s1))
        fp == IF Len(s2) > 0 /\ Head(s2) = "." THEN DigitPrefix(Tail(s2)) ELSE ""
    IN  [ nan |-> (ip = "" /\ fp = ""),
          neg |-> neg,
          int |-> DecimalValue(ip, 0),
          fracNonZero |-> (\E k \in 1..Len(fp) : CharAt(fp, k) # "0") ]

\* num >= 0 && num <= hi   (hi a non-negative integer)
InRange0(num, hi) ==
    /\ ~num.nan
    /\ (num.neg => (num.int = 0 /\ ~num.fracNonZero))
    /\ (num.int < hi \/ (num.int = hi /\ ~num.fracNonZero) \/ num.neg)

isValidCGPA(cgpa) == InRange0(parseFloat(cgpa), 10)

isValidAttendancePercentage(percentage) == InRange0(parseFloat(percentage), 100)

(***************************************************************************)
(* Canonical fields.  requiredFields (pages/Roster.tsx) pairs every key    *)
(* with its display label; requiredRosterFields (api/mockApi.ts) lists the *)
(* same keys in the same order.                                            *)
(***************************************************************************)
requiredFields ==
    << [key |-> "student_id",            label |-> "Student_ID"],
       [key |-> "name",                  label |-> "Name"],
       [key |-> "gender",                label |-> "Gender"],
       [key |-> "department",            label |-> "Department"],
       [key |-> "year_of_study",         label |-> "Year_of_Study"],
       [key |-> "cgpa",                  label |-> "CGPA"],
       [key |-> "email",                 label |-> "Email"],
       [key |-> "phone_number",          label |-> "Phone_Number"],
       [key |-> "parent_number",         label |-> "Parent_Number"],
       [key |-> "city",                  label |-> "City"],
       [key |-> "attendance_percentage", label |-> "Attendance_Percentage"] >>

requiredRosterFields ==
    << "student_id", "name", "gender", "department", "year_of_study", "cgpa",
       "email", "phone_number", "parent_number", "city", "attendance_percentage" >>

\* the keys of RosterRow["data"]
FieldKeys == Range(requiredRosterFields)

\* the data object every parsed row starts with, and the mapper starts from
EmptyData == [f \in FieldKeys |-> ""]

\* row identifiers are positive integers (nanoid() never returns the empty
\* string); NoRow stands for an undefined duplicateOf
NoRow == 0

\* Set.prototype.add on an insertion-ordered set
AddError(errors, msg) == IF msg \in Range(errors) THEN errors ELSE Append(errors, msg)

\* errors.add(msg) under a condition
AddErrorIf(cond, errors, msg) == IF cond THEN AddError(errors, msg) ELSE errors

(***************************************************************************)
(* validateRows (pages/Roster.tsx)                                         *)
(***************************************************************************)
RECURSIVE RequiredErrors(_, _, _)
RequiredErrors(data, i, errors) ==
    IF i > Len(requiredFields) THEN errors
    ELSE RequiredErrors(data, i + 1,
            AddErrorIf(data[requiredFields[i].key] = "", errors,
                       requiredFields[i].label \o " required"))

\* the per-row checks, had they stopped before the numeric range checks
RowFieldErrors_NoRange(data) ==
    LET e0 == RequiredErrors(data, 1, << >>)
        e1 == AddErrorIf(data["email"] # "" /\ ~isValidEmail(data["email"]),
                         e0, "Invalid email format")
        e2 == AddErrorIf(data["phone_number"] # "" /\ ~isE164Phone(data["phone_number"]),
                         e1, "Invalid phone number (must be exactly 10 digits)")
        e3 == AddErrorIf(data["parent_number"] # "" /\ ~isE164Phone(data["parent_number"]),
                         e2, "Invalid parent number (must be exactly 10 digits)")
    IN  e3

\* the per-row checks of validateRows, before the duplicate check
RowFieldErrors(data) ==
    LET e0 == RequiredErrors(data, 1, << >>)
        e1 == AddErrorIf(data["email"] # "" /\ ~isValidEmail(data["email"]),
                         e0, "Invalid email format")
        e2 == AddErrorIf(data["phone_number"] # "" /\ ~isE164Phone(data["phone_number"]),
                         e1, "Invalid phone number (must be exactly 10 digits)")
        e3 == AddErrorIf(data["parent_number"] # "" /\ ~isE164Phone(data["parent_number"]),
                         e2, "Invalid parent number (must be exactly 10 digits)")
        e4 == AddErrorIf(data["cgpa"] # "" /\ ~isValidCGPA(data["cgpa"]),
                         e3, "Invalid CGPA (must be between 0 and 10)")
        e5 == AddErrorIf(data["attendance_percentage"] # ""
                           /\ ~isValidAttendancePercentage(data["attendance_percentage"]),
                         e4, "Invalid attendance percentage (must be between 0 and 100)")
    IN  e5

\* seen is the Map of the first row identifier per student_id, as a function
SeenSet(seen, id, rowId) ==
    [k \in (DOMAIN seen) \cup {id} |-> IF k = id THEN rowId ELSE seen[k]]

\* new Set(row.errors): the distinct entries in first-occurrence order
RECURSIVE Dedup(_, _)
Dedup(errors, acc) ==
    IF Len(errors) = 0 THEN acc ELSE Dedup(Tail(errors), AddError(acc, Head(errors)))

\* the iteration, had it started from the violations the row already has and
\* left the duplicate marker of a row that repeats no identifier as it is
ValidateRow_KeepErrors(row, seen) ==
    LET errors == Dedup(row.errors \o RowFieldErrors(row.data), << >>)
        id == row.data["student_id"]
    IN  IF id \in DOMAIN seen
        THEN [row EXCEPT !.errors = AddError(errors, "Duplicate student ID"),
                         !.duplicateOf = seen[id]]
        ELSE [row EXCEPT !.errors = errors]

\* one iteration of rows.map in validateRows
ValidateRow(row, seen) ==
    LET errors == RowFieldErrors(row.data)
        id == row.data["student_id"]
    IN  IF id \in DOMAIN seen
        THEN [row EXCEPT !.errors = AddError(errors, "Duplicate student ID"),
                         !.duplicateOf = seen[id]]
        ELSE [row EXCEPT !.errors = errors, !.duplicateOf = NoRow]

\* the scan, had seen.set run for every row with an identifier: the Map
\* then holds the last row seen, not the first
RECURSIVE ValidateFrom_LastSeen(_, _, _)
ValidateFrom_LastSeen(rows, i, seen) ==
    IF i > Len(rows) THEN << >>
    ELSE LET row == rows[i]
             id == row.data["student_id"]
             seenNext == IF id # ""
                         THEN SeenSet(seen, id, row.rowId) ELSE seen
         IN  <<ValidateRow(row, seen)>> \o ValidateFrom_LastSeen(rows, i + 1, seenNext)

RECURSIVE ValidateFrom(_, _, _)
ValidateFrom(rows, i, seen) ==
    IF i > Len(rows) THEN << >>
    ELSE LET row == rows[i]
             id == row.data["student_id"]
             seenNext == IF id \notin DOMAIN seen /\ id # ""
                         THEN SeenSet(seen, id, row.rowId) ELSE seen
         IN  <<ValidateRow(row, seen)>> \o ValidateFrom(rows, i + 1, seenNext)

\* the validator, had it dropped the rows it flags as duplicates
validateRows_DropDuplicates(rows) ==
    SelectSeq(ValidateFrom(rows, 1, << >>), LAMBDA row : row.duplicateOf = NoRow)

validateRows(rows) == ValidateFrom(rows, 1, << >>)

(***************************************************************************)
(* ensureRosterValidation, normalizeRosterRows, mapRosterColumnsInternal   *)
(* (api/mockApi.ts)                                                        *)
(***************************************************************************)
RECURSIVE MissingErrors(_, _, _)
MissingErrors(data, i, errors) ==
    IF i > Len(requiredRosterFields) THEN errors
    ELSE MissingErrors(data, i + 1,
            AddErrorIf(data[requiredRosterFields[i]] = "", errors,
                       "Missing " \o ReplaceUnderscores(requiredRosterFields[i])))

EnsureRow(row, seenIds) ==
    LET e0 == MissingErrors(row.data, 1, Dedup(row.errors, << >>))
        e1 == AddErrorIf(row.data["phone_number"] # "" /\ ~isE164Phone(row.data["phone_number"]),
                         e0, "Invalid phone number (must be exactly 10 digits)")
        e2 == AddErrorIf(row.data["parent_number"] # "" /\ ~isE164Phone(row.data["parent_number"]),
                         e1, "Invalid parent number (must be exactly 10 digits)")
        e3 == AddErrorIf(row.data["email"] # "" /\ ~isValidEmail(row.data["email"]),
                         e2, "Invalid email format")
        id == row.data["student_id"]
    IN  IF id \in DOMAIN seenIds
        THEN [row EXCEPT !.errors = AddError(e3, "Duplicate student_id in file"),
                         !.duplicateOf = seenIds[id]]
        ELSE [row EXCEPT !.errors = e3]

RECURSIVE EnsureFrom(_, _, _)
EnsureFrom(rows, i, seenIds) ==
    IF i > Len(rows) THEN << >>
    ELSE LET row == rows[i]
             id == row.data["student_id"]
             seenNext == IF id \notin DOMAIN seenIds /\ id # ""
                         THEN SeenSet(seenIds, id, row.rowId) ELSE seenIds
         IN  <<EnsureRow(row, seenIds)>> \o EnsureFrom(rows, i + 1, seenNext)

ensureRosterValidation(rows) == EnsureFrom(rows, 1, << >>)

normalizeRosterRows(rows) == ensureRosterValidation(rows)

\* row.raw?.[columnName] ?? ""
RawValue(row, columnName) ==
    IF columnName \in DOMAIN row.raw THEN row.raw[columnName] ELSE ""

\* the projection, had it stored the raw value as it is
MapRow_NoTrim(mapping, row) ==
    [row EXCEPT !.data = [f \in FieldKeys |->
                             IF f \in DOMAIN mapping
                             THEN RawValue(row, mapping[f])
                             ELSE ""],
                !.errors = << >>]

\* the projection of one row: every key of the mapping that is a canonical
\* field receives the trimmed raw value, the other fields stay ""
MapRow(mapping, row) ==
    [row EXCEPT !.data = [f \in FieldKeys |->
                             IF f \in DOMAIN mapping
                             THEN Trim(RawValue(row, mapping[f]))
                             ELSE ""],
                !.errors = << >>]

\* the mapper, had it returned the rows last to first
mapRosterColumnsInternal_Reversed(mapping, rows) ==
    normalizeRosterRows([i \in DOMAIN rows |-> MapRow(mapping, rows[Len(rows) + 1 - i])])

\* the mapper, had it returned the projected rows without normalizing them
mapRosterColumnsInternal_NoNormalize(mapping, rows) ==
    [i \in DOMAIN rows |-> MapRow(mapping, rows[i])]

mapRosterColumnsInternal(mapping, rows) ==
    normalizeRosterRows([i \in DOMAIN rows |-> MapRow(mapping, rows[i])])

(***************************************************************************)
(* Initial mapping guess of handleFileChange (pages/Roster.tsx)            *)
(***************************************************************************)
\* the predicate of columnsToUse.find for one field
ColumnMatches(field, col) ==
    LET fieldKeyLower == ToLowerCase(ReplaceUnderscores(field.key))
        colLower == ToLowerCase(col)
    IN  \/ Includes(colLower, fieldKeyLower)
        \/ Includes(colLower, ToLowerCase(field.label))
        \/ (Includes(fieldKeyLower, "student_id") /\ Includes(colLower, "id"))
        \/ (Includes(fieldKeyLower, "phone") /\ Includes(colLower, "phone"))
        \/ (Includes(fieldKeyLower, "email") /\ Includes(colLower, "email"))
        \/ (Includes(fieldKeyLower, "name") /\ Includes(colLower, "name"))

\* columnsToUse.find(...): the first matching column from position i on,
\* in a one-element sequence, or << >> for undefined
RECURSIVE FindColumn(_, _, _)
FindColumn(field, columnsToUse, i) ==
    IF i > Len(columnsToUse) THEN << >>
    ELSE IF ColumnMatches(field, columnsToUse[i]) THEN << columnsToUse[i] >>
    ELSE FindColumn(field, columnsToUse, i + 1)

\* the guess, had it left a field without match unmapped
GuessColumn_NoDefault(field, columnsToUse) ==
    LET column == FindColumn(field, columnsToUse, 1)
    IN  IF column # << >> THEN column[1] ELSE ""

\* column ?? columnsToUse[0]
GuessColumn(field, columnsToUse) ==
    LET column == FindColumn(field, columnsToUse, 1)
    IN  IF column # << >> THEN column[1] ELSE columnsToUse[1]

defaultMapping(columnsToUse) ==
    [f \in { requiredFields[i].key : i \in DOMAIN requiredFields } |->
        GuessColumn(requiredFields[CHOOSE i \in DOMAIN requiredFields :
                                      requiredFields[i].key = f],
                    columnsToUse)]

(***************************************************************************)
(* firebaseApi.uploadRoster and studentsService.bulkCreate                 *)
(***************************************************************************)
\* the value of an absent optional property
UndefinedValue == "<undefined>"

\* the Student, had the name been cut at its first run of whitespace only
StudentOf_SplitOnce(row) ==
    LET name == Trim(row.data["name"])
        nameParts == SplitWhitespace(name)
    IN  [ studentId            |-> row.data["student_id"],
          firstName            |-> nameParts[1],
          lastName             |-> TrimStart(SubSeq(name, Len(nameParts[1]) + 1, Len(name))),
          class                |-> row.data["year_of_study"],
          section              |-> row.data["department"],
          rollNo               |-> row.data["student_id"],
          parentPrimaryPhone   |-> row.data["phone_number"],
          parentSecondaryPhone |-> IF row.data["parent_number"] # ""
                                   THEN row.data["parent_number"]
                                   ELSE UndefinedValue,
          biometricId          |-> row.data["student_id"] ]

\* the Student built from one roster row (firebaseApi.uploadRoster, .map)
StudentOf(row) ==
    LET nameParts == SplitWhitespace(Trim(row.data["name"]))
    IN  [ studentId            |-> row.data["student_id"],
          firstName            |-> nameParts[1],
          lastName             |-> JoinSpace(Tail(nameParts)),
          class                |-> row.data["year_of_study"],
          section              |-> row.data["department"],
          rollNo               |-> row.data["student_id"],
          parentPrimaryPhone   |-> row.data["phone_number"],
          parentSecondaryPhone |-> IF row.data["parent_number"] # ""
                                   THEN row.data["parent_number"]
                                   ELSE UndefinedValue,
          biometricId          |-> row.data["student_id"] ]

\* the filter, had it looked at the duplicate marker instead of the violations
EligibleRows_NotDuplicate(rows) == SelectSeq(rows, LAMBDA row : row.duplicateOf = NoRow)

\* rows.filter((row) => row.errors.length === 0)
EligibleRows(rows) == SelectSeq(rows, LAMBDA row : Len(row.errors) = 0)

\* studentsToCreate of firebaseApi.uploadRoster
studentsToCreate(rows) ==
    LET eligible == EligibleRows(rows)
    IN  [i \in DOMAIN eligible |-> StudentOf(eligible[i])]

\* batch.set(docRef, student) throws on a field whose value is undefined;
\* this is the only way the loop of bulkCreate reaches its catch
SetThrows(student) == student.parentSecondaryPhone = UndefinedValue

\* the students staged in the write batch by the loop of bulkCreate
Staged(studentList) == SelectSeq(studentList, LAMBDA st : ~SetThrows(st))

\* doc(collection(db, "students")): a new document reference with an
\* auto-generated identifier, one per staged student, whatever the store holds
NewDocs(staged, firstId) ==
    { [id |-> firstId + i - 1, fields |-> staged[i]] : i \in DOMAIN staged }

\* bulkCreate, had its catch of a rejected commit left the counts alone
bulkCreate_KeepCounts(studentList, db, firstId, commitOk) ==
    LET staged == Staged(studentList)
    IN  [ successCount |-> Len(staged),
          failureCount |-> Len(studentList) - Len(staged),
          db |-> IF commitOk THEN db \cup NewDocs(staged, firstId) ELSE db ]

\* the counts and the collection after bulkCreate
bulkCreate(studentList, db, firstId, commitOk) ==
    LET staged == Staged(studentList)
        successCount == Len(staged)
        failureCount == Len(studentList) - Len(staged)
    IN  IF commitOk
        THEN [ successCount |-> successCount,
               failureCount |-> failureCount,
               db |-> db \cup NewDocs(staged, firstId) ]
        ELSE [ successCount |-> 0,
               failureCount |-> failureCount + successCount,
               db |-> db ]

(***************************************************************************)
(* parseRosterFile (api/mockApi.ts): the File Decoder.                     *)
(*                                                                         *)
(* A file is a record [kind, structure, jsonData, text, cells]:            *)
(*   kind       "xlsx" or "csv", from the extension of file.name           *)
(*   structure  binary path: what XLSX.read and the sheet lookup give,     *)
(*              "ok", "tooSmall", "unreadable", "noSheets" or "noRef"      *)
(*   jsonData   binary path: the rows XLSX.utils.sheet_to_json returns for *)
(*              the first sheet (header: 1, defval: ""), cells as strings  *)
(*   text       text path: the content of the file                         *)
(*   cells      text path: the cell values the lines of text encode        *)
(* The result is [ok, columns, raws]: ok = FALSE when parseRosterFile      *)
(* throws, else the columns and the raw cells of the rows it returns.      *)
(***************************************************************************)
DecodeError == [ ok |-> FALSE, columns |-> << >>, raws |-> << >> ]

\* `Column ${String.fromCharCode(65 + (idx % 26))}`, idx counted from 0
Alphabet == "ABCDEFGHIJKLMNOPQRSTUVWXYZ"
ColumnLetter(idx) == "Column " \o CharAt(Alphabet, (idx % 26) + 1)

\* str.includes("[") && str.includes("]")
HasBrackets(str) == Includes(str, "[") /\ Includes(str, "]")

\* row.map((cell) => String(cell || "").toLowerCase()).join(" ")
RowText(row) == ToLowerCase(JoinSpace(row))

HeaderKeywords == << "student", "name", "email", "phone", "department", "gender", "id" >>

looksLikeHeader(rowText) ==
    \E k \in DOMAIN HeaderKeywords : Includes(rowText, HeaderKeywords[k])

looksLikeMetadata(rowText, row) ==
    \/ Includes(rowText, "xml")
    \/ Includes(rowText, "content_types")
    \/ Includes(rowText, "rels")
    \/ Includes(rowText, "[content_types]")
    \/ (HasBrackets(rowText) /\ Len(row) = 1)

\* how many rows the header search looks at
HeaderSearchRows == 10

\* the loop that sets headerRowIndex, from row i on; rows are counted from 1
\* here, so the result 1 is headerRowIndex = 0
RECURSIVE FindHeaderRow(_, _)
FindHeaderRow(jsonData, i) ==
    IF i > Len(jsonData) \/ i > HeaderSearchRows THEN 1
    ELSE IF Len(jsonData[i]) = 0 THEN FindHeaderRow(jsonData, i + 1)
    ELSE IF \/ looksLikeHeader(RowText(jsonData[i]))
            \/ (~looksLikeMetadata(RowText(jsonData[i]), jsonData[i]) /\ i = 1)
         THEN i
         ELSE FindHeaderRow(jsonData, i + 1)

\* one cell of headerRow; idx is the position of the cell counted from 0
CleanHeaderCell(col, idx) ==
    LET str == Trim(col)
    IN  IF \/ Includes(str, "<")
           \/ Includes(str, "xml")
           \/ Includes(str, "XML")
           \/ Includes(ToLowerCase(str), "content_types")
           \/ Includes(ToLowerCase(str), "rels")
           \/ (HasBrackets(str) /\ Len(str) > 50)
        THEN ColumnLetter(idx)
        ELSE IF str = "" THEN ColumnLetter(idx)
        ELSE str

\* one cell of validColumns
ValidColumn(col, idx) ==
    IF Len(col) > 100 \/ HasBrackets(col) THEN ColumnLetter(idx) ELSE col

validColumns(headerRowRaw) ==
    [i \in DOMAIN headerRowRaw |->
        ValidColumn(CleanHeaderCell(headerRowRaw[i], i - 1), i - 1)]

\* raw[columnName] = value for every column in turn: under a repeated column
\* name the value of its last position stays
RawObject(columns, values) ==
    [c \in Range(columns) |->
        values[CHOOSE i \in DOMAIN columns :
                  /\ columns[i] = c
                  /\ \A j \in DOMAIN columns : columns[j] = c => j <= i]]

\* the values of one sheet row under the columns
ExcelValues(columns, row) ==
    [i \in DOMAIN columns |-> IF i <= Len(row) THEN Trim(row[i]) ELSE ""]

\* the rows pushed by the loop over the data rows of the sheet, from row i on
RECURSIVE ExcelRaws(_, _, _)
ExcelRaws(columns, jsonData, i) ==
    IF i > Len(jsonData) THEN << >>
    ELSE LET row == jsonData[i]
             values == ExcelValues(columns, row)
             hasData == \E k \in DOMAIN values : Len(values[k]) > 0
         IN  IF Len(row) = 0 \/ ~hasData
             THEN ExcelRaws(columns, jsonData, i + 1)
             ELSE << RawObject(columns, values) >> \o ExcelRaws(columns, jsonData, i + 1)

\* the binary path up to the check of dataRows
ParseExcel(file) ==
    IF file.structure # "ok" \/ Len(file.jsonData) = 0 THEN DecodeError
    ELSE LET headerRowIndex == FindHeaderRow(file.jsonData, 1)
             columns == validColumns(file.jsonData[headerRowIndex])
         IN  [ ok |-> TRUE, columns |-> columns,
               raws |-> ExcelRaws(columns, file.jsonData, headerRowIndex + 1) ]

\* text.split(/\r?\n/), one line at a time: break is the position of the
\* first "\n" of the text (0 when it has none), and a "\r" right before it
\* belongs to the separator
RECURSIVE SplitLinesFrom(_, _)
SplitLinesFrom(text, cur) ==
    LET break == IF \E i \in 1..Len(text) : CharAt(text, i) = "\n"
                 THEN CHOOSE i \in 1..Len(text) :
                          /\ CharAt(text, i) = "\n"
                          /\ \A j \in 1..(i - 1) : CharAt(text, j) # "\n"
                 ELSE 0
        lineEnd == IF break > 1 /\ CharAt(text, break - 1) = "\r"
                   THEN break - 2
                   ELSE break - 1
    IN  IF break = 0 THEN << cur \o text >>
        ELSE << cur \o SubSeq(text, 1, lineEnd) >>
                 \o SplitLinesFrom(SubSeq(text, break + 1, Len(text)), "")

\* the lines of the text that are not blank
NonBlankLines(text) ==
    SelectSeq(SplitLinesFrom(text, ""), LAMBDA line : Len(Trim(line)) > 0)

\* the loop of parseCSVLine from position i on (counted from 1), with the
\* field read so far and the quote state
RECURSIVE ParseCSVFrom(_, _, _, _)
ParseCSVFrom(line, i, current, inQuotes) ==
    IF i > Len(line) THEN << current >>
    ELSE LET char == CharAt(line, i)
             nextIsQuote == i < Len(line) /\ CharAt(line, i + 1) = "\""
         IN  IF char = "\""
             THEN IF inQuotes /\ nextIsQuote
                  THEN ParseCSVFrom(line, i + 2, current \o "\"", inQuotes)
                  ELSE ParseCSVFrom(line, i + 1, current, ~inQuotes)
             ELSE IF char = "," /\ ~inQuotes
                  THEN << current >> \o ParseCSVFrom(line, i + 1, "", inQuotes)
                  ELSE ParseCSVFrom(line, i + 1, current \o char, inQuotes)

parseCSVLine(line) == ParseCSVFrom(line, 1, "", FALSE)

\* s.replace(/^"|"$/g, "")
StripQuotes(s) ==
    LET s1 == IF Len(s) > 0 /\ Head(s) = "\"" THEN Tail(s) ELSE s
    IN  IF Len(s1) > 0 /\ CharAt(s1, Len(s1)) = "\""
        THEN SubSeq(s1, 1, Len(s1) - 1)
        ELSE s1

\* h.trim().replace(/^"|"$/g, "")
CleanCell(value) == StripQuotes(Trim(value))

\* one entry of columns in the text path; idx counted from 0
CsvColumn(h, idx) ==
    LET cleaned == CleanCell(h)
    IN  IF cleaned = "" \/ Includes(cleaned, "<") \/ Includes(cleaned, "xml")
        THEN ColumnLetter(idx)
        ELSE cleaned

CsvColumns(headerLine) ==
    LET headers == parseCSVLine(headerLine)
    IN  [i \in DOMAIN headers |-> CsvColumn(headers[i], i - 1)]

\* values[index]?.trim().replace(/^"|"$/g, "") || "" for every column
CsvValues(columns, values) ==
    [i \in DOMAIN columns |-> IF i <= Len(values) THEN CleanCell(values[i]) ELSE ""]

\* the rows pushed by the loop over lines[1..], from line i on
RECURSIVE CsvRaws(_, _, _)
CsvRaws(columns, lines, i) ==
    IF i > Len(lines) THEN << >>
    ELSE LET raw == RawObject(columns, CsvValues(columns, parseCSVLine(Trim(lines[i]))))
         IN  IF \A c \in DOMAIN raw : Trim(raw[c]) = ""
             THEN CsvRaws(columns, lines, i + 1)
             ELSE << raw >> \o CsvRaws(columns, lines, i + 1)

\* the text path up to the check of dataRows
ParseCsv(file) ==
    LET lines == NonBlankLines(file.text)
    IN  IF Len(lines) = 0 THEN DecodeError
        ELSE LET columns == CsvColumns(lines[1])
             IN  [ ok |-> TRUE, columns |-> columns,
                   raws |-> CsvRaws(columns, lines, 2) ]

\* the decoder, had it returned a result without data rows
parseRosterFile_NoRowCheck(file) ==
    IF file.kind = "xlsx" THEN ParseExcel(file) ELSE ParseCsv(file)

parseRosterFile(file) ==
    LET result == IF file.kind = "xlsx" THEN ParseExcel(file) ELSE ParseCsv(file)
    IN  IF result.ok /\ Len(result.raws) = 0 THEN DecodeError ELSE result

(***************************************************************************)
(* Inputs: the files the user may choose, given by what parseRosterFile    *)
(* returns for them (columns and the raw cells of the kept rows), or by    *)
(* the decode error it raises.                                             *)
(***************************************************************************)
rosterColumns ==
    << "Student_ID", "Name", "Gender", "Department", "Year_of_Study", "CGPA",
       "Email", "Phone_Number", "Parent_Number", "City", "Attendance_Percentage" >>

\* a raw row over rosterColumns
SampleRaw(cells) == [c \in Range(rosterColumns) |->
                        cells[CHOOSE i \in DOMAIN rosterColumns : rosterColumns[i] = c]]

\* a file in the sample format whose rows are all valid
FileSample ==
    [ ok |-> TRUE,
      columns |-> rosterColumns,
      raws |-> << SampleRaw(<< "7", "Bob Johnson  Smith", "M", "CS", "2", "8",
                               "a@b.c", "9876543210", "98765-43211", "Pune", "90" >>),
                  SampleRaw(<< "8", "Cher", "M", "CS", "2", "10.0",
                               "c@d.e", "9876543212", "9876543213", "Pune", "100" >>) >> ]

\* a file with headers of its own, a repeated identifier and a sparse column
MessyColumns == << "ID", "Full Name", "Notes" >>

MessyRaw(cells) == [c \in Range(MessyColumns) |->
                       cells[CHOOSE i \in DOMAIN MessyColumns : MessyColumns[i] = c]]

FileMessy ==
    [ ok |-> TRUE,
      columns |-> MessyColumns,
      raws |-> << MessyRaw(<< "7", "A B", "" >>),
                  MessyRaw(<< " 7", "", "" >>),
                  MessyRaw(<< "7", "C", "x" >>) >> ]

\* a file parseRosterFile rejects
FileBroken == [ ok |-> FALSE, columns |-> << >>, raws |-> << >> ]

Files == { FileSample, FileMessy, FileBroken }

\* the entries of the mapping the user changes, and the columns chosen
MapKeys == { "student_id", "name" }
MapColumns == { "Gender", "Notes" }

\* the preview cells the user edits, and the values typed
EditFields == { "student_id" }
EditValues == { "", "7" }

(***************************************************************************)
(* State                                                                   *)
(***************************************************************************)
VARIABLES
    rosterUpload,   \* ApiContext state: << >> for null, else <<RosterUploadState>>
    students,       \* ApiContext state: the cached student list
    pendingMaps,    \* the handleMappingChange calls awaiting mapRosterColumns
    save,           \* the handleSave in flight: position, captured rows, result
    studentsDb,     \* the "students" collection of the store
    nextRowId,      \* nanoid(): next fresh row identifier
    nextDocId,      \* next auto-generated document identifier
    toast,          \* the last toast pushed
    lastCommit,     \* history: the row data of the last batch the store accepted
    lastChosen,     \* history: the column last chosen per field since the load
    events          \* how many user actions were taken

pageVars == << rosterUpload, students, pendingMaps, save,
              studentsDb, nextRowId, nextDocId, toast, lastCommit, lastChosen,
              events >>

\* The pipeline run on its own, one stage per step: the arguments and the
\* result of each stage, for the properties of the stages as functions.
VARIABLES
    pipePc,         \* "off", "decoded", "mapped" or "validated"
    pipeMapping,    \* the mapping given to the Column Mapper
    pipeRows,       \* the original decoded rows given to the Column Mapper
    pipeMapped,     \* what mapRosterColumnsInternal returned
    pipeValIn,      \* the rows given to validateRows
    pipeValOut,     \* what validateRows returned
    pipeEdits       \* how many cells were edited

pipeVars == << pipePc, pipeMapping, pipeRows, pipeMapped, pipeValIn, pipeValOut,
               pipeEdits >>

\* The File Decoder run on its own on one chosen file, followed by the rest
\* of handleFileChange.
VARIABLES
    decPc,          \* "off", "chosen", "decoded" or "loaded"
    decFile,        \* the file given to parseRosterFile
    decResult,      \* what parseRosterFile returned or that it threw
    decSplit        \* text path: the cleaned cells of every non-blank line

decVars == << decPc, decFile, decResult, decSplit >>

\* quickSendAnnouncement -> sendBulkSMS -> sendSMS on one target list
VARIABLES
    smsPc,            \* "off", "start", "sending", "sent", "done" or "failed"
    smsTargets,       \* the students the announcement goes to
    smsMessage,       \* the text handed to sendBulkSMS
    smsResults,       \* results of sendBulkSMS: the `return` flag per batch
    smsForwarded,     \* history: per batch, the numbers posted to the vendor
    smsNotifications, \* the notification logs created
    smsReturn         \* what quickSendAnnouncement returned

smsVars == << smsPc, smsTargets, smsMessage, smsResults, smsForwarded,
              smsNotifications, smsReturn >>

\* the biometric feed of api/mockApi.ts
VARIABLES
    biometricListeners,   \* the Set of registered listeners
    biometricIntervalId,  \* the interval id held by the module, NoTimer for null
    feedTimers,           \* the interval ids set and not cleared
    feedClosures,         \* the unsubscribe functions handed out, by listener
    feedStarts,           \* history: setInterval calls since the set was last empty
    feedNextId,           \* the id the next setInterval returns
    feedEvents,           \* biometricEventsStore.length
    feedOps               \* how many subscribe and unsubscribe calls were made

feedVars == << biometricListeners, biometricIntervalId, feedTimers, feedClosures,
               feedStarts, feedNextId, feedEvents, feedOps >>

vars == << pageVars, pipeVars, decVars, smsVars, feedVars >>

NoToast == [status |-> "none", title |-> "", successCount |-> 0, failureCount |-> 0]

Toast(status, title) ==
    [status |-> status, title |-> title, successCount |-> 0, failureCount |-> 0]

\* commitOk: whether batch.commit() of the save in flight has resolved
IdleSave ==
    [pc |-> "idle", rows |-> << >>, successCount |-> 0, failureCount |-> 0,
     commitOk |-> FALSE]

PageInit ==
    /\ rosterUpload = << >>
    /\ students = {}
    /\ pendingMaps = {}
    /\ save = IdleSave
    /\ studentsDb = {}
    /\ nextRowId = 1
    /\ nextDocId = 1
    /\ toast = NoToast
    /\ lastCommit = << >>
    /\ lastChosen = << >>
    /\ events = 0

PipeOff ==
    /\ pipePc = "off"
    /\ pipeMapping = << >>
    /\ pipeRows = << >>
    /\ pipeMapped = << >>
    /\ pipeValIn = << >>
    /\ pipeValOut = << >>
    /\ pipeEdits = 0

DecOff ==
    /\ decPc = "off"
    /\ decFile = << >>
    /\ decResult = << >>
    /\ decSplit = << >>

\* window.setInterval returns a positive integer; NoTimer stands for null
NoTimer == 0

NoReturn == [sentCount |-> 0, totalCount |-> 0, failedCount |-> 0]

SmsOff ==
    /\ smsPc = "off"
    /\ smsTargets = << >>
    /\ smsMessage = ""
    /\ smsResults = << >>
    /\ smsForwarded = << >>
    /\ smsNotifications = << >>
    /\ smsReturn = NoReturn

FeedOff ==
    /\ biometricListeners = {}
    /\ biometricIntervalId = NoTimer
    /\ feedTimers = {}
    /\ feedClosures = {}
    /\ feedStarts = 0
    /\ feedNextId = 1
    /\ feedEvents = 0
    /\ feedOps = 0

Init == PageInit /\ PipeOff /\ DecOff /\ SmsOff /\ FeedOff

\* the rows parseRosterFile returns: fresh row identifiers, empty data
ParsedRows(file, firstId) ==
    [i \in DOMAIN file.raws |->
        [ rowId |-> firstId + i - 1,
          data |-> EmptyData,
          errors |-> << >>,
          duplicateOf |-> NoRow,
          raw |-> file.raws[i] ]]

(***************************************************************************)
(* handleFileChange                                                        *)
(*                                                                         *)
(* The handler reads no shared state: it awaits loadRosterPreview and      *)
(* mapRosterColumns on the chosen file alone and then replaces the whole   *)
(* rosterUpload, and the file input is disabled while it runs, so no       *)
(* second load overlaps it.  The action is therefore taken at the moment   *)
(* its last await resumes; what the user does while the file is loading    *)
(* is a step before it.                                                    *)
(***************************************************************************)
\* result.columns.filter((col) => col && col.length > 0)
columnsToUse(file) == SelectSeq(file.columns, LAMBDA col : Len(col) > 0)

FileChange(file) ==
    /\ events < MaxEvents
    /\ events' = events + 1
    /\ IF file.ok /\ Len(columnsToUse(file)) > 0
       THEN LET rows == ParsedRows(file, nextRowId)
                mapping == defaultMapping(columnsToUse(file))
            IN  /\ rosterUpload' = << [ columns |-> columnsToUse(file),
                                        mapping |-> mapping,
                                        originalRows |-> rows,
                                        rows |-> validateRows(
                                            mapRosterColumnsInternal(mapping, rows)) ] >>
                /\ nextRowId' = nextRowId + Len(rows)
                /\ toast' = Toast("success", "File parsed")
                /\ lastChosen' = << >>
       ELSE /\ toast' = Toast("error", "Parse error")
            /\ UNCHANGED << rosterUpload, nextRowId, lastChosen >>
    /\ UNCHANGED << students, pendingMaps, save, studentsDb, nextDocId, lastCommit,
                    pipeVars, decVars, smsVars, feedVars >>

(***************************************************************************)
(* handleMappingChange                                                     *)
(***************************************************************************)
\* { ...mapping, [key]: value }
nextMapping(mapping, key, value) ==
    [k \in (DOMAIN mapping) \cup {key} |-> IF k = key THEN value ELSE mapping[k]]

\* the user selects a column for a field: the handler captures the
\* rosterUpload of the current render and awaits mapRosterColumns
MappingChange(key, value) ==
    /\ rosterUpload # << >>
    /\ value \in Range(rosterUpload[1].columns)
    /\ events < MaxEvents
    /\ pendingMaps' = pendingMaps \cup
            { [rosterUpload |-> rosterUpload[1], key |-> key, value |-> value] }
    /\ lastChosen' = nextMapping(lastChosen, key, value)
    /\ events' = events + 1
    /\ UNCHANGED << rosterUpload, students, save, studentsDb,
                    nextRowId, nextDocId, toast, lastCommit,
                    pipeVars, decVars, smsVars, feedVars >>

\* mapRosterColumns has resolved: validate and store
MappingComplete(op) ==
    /\ op \in pendingMaps
    /\ LET next == nextMapping(op.rosterUpload.mapping, op.key, op.value)
           remapped == mapRosterColumnsInternal(next, op.rosterUpload.originalRows)
       IN  rosterUpload' = << [op.rosterUpload EXCEPT
                                  !.mapping = next,
                                  !.rows = validateRows(remapped)] >>
    /\ pendingMaps' = pendingMaps \ {op}
    /\ UNCHANGED << students, save, studentsDb, nextRowId,
                    nextDocId, toast, lastCommit, events,
                    lastChosen, pipeVars, decVars, smsVars, feedVars >>

(***************************************************************************)
(* handleRowChange, updateRosterRows, clearRosterPreview                   *)
(***************************************************************************)
\* the rows.map of handleRowChange
EditedRows(rows, rowId, field, value) ==
    [i \in DOMAIN rows |->
        IF rows[i].rowId = rowId
        THEN [rows[i] EXCEPT !.data = [@ EXCEPT ![field] = value]]
        ELSE rows[i]]

\* the user types into a preview cell
RowChange(rowId, field, value) ==
    /\ rosterUpload # << >>
    /\ \E i \in DOMAIN rosterUpload[1].rows : rosterUpload[1].rows[i].rowId = rowId
    /\ events < MaxEvents
    /\ rosterUpload' = << [rosterUpload[1] EXCEPT
                              !.rows = validateRows(
                                  EditedRows(rosterUpload[1].rows, rowId, field, value))] >>
    /\ events' = events + 1
    /\ UNCHANGED << students, pendingMaps, save, studentsDb,
                    nextRowId, nextDocId, toast, lastCommit,
                    lastChosen, pipeVars, decVars, smsVars, feedVars >>

\* the Clear button, shown while a preview exists
ClearPreview ==
    /\ rosterUpload # << >>
    /\ rosterUpload' = << >>
    /\ toast' = Toast("success", "Cleared")
    /\ lastChosen' = << >>
    /\ UNCHANGED << students, pendingMaps, save, studentsDb,
                    nextRowId, nextDocId, lastCommit, events,
                    pipeVars, decVars, smsVars, feedVars >>

(***************************************************************************)
(* handleSave -> saveRoster -> firebaseApi.uploadRoster -> bulkCreate      *)
(***************************************************************************)
\* The Save button (enabled while not saving and the preview has rows)
\* captures the rows of the current render; uploadRoster then runs on these
\* rows alone up to the end of bulkCreate, where batch.commit() resolves or
\* rejects.  Nothing the user does in between changes what is committed, so
\* the two are one step, taken at the commit.
SaveCommit(commitOk) ==
    /\ save.pc = "idle"
    /\ rosterUpload # << >>
    /\ Len(rosterUpload[1].rows) > 0
    /\ events < MaxEvents
    /\ events' = events + 1
    /\ LET rows == rosterUpload[1].rows
           batch == studentsToCreate(rows)
           result == bulkCreate(batch, studentsDb, nextDocId, commitOk)
       IN  /\ studentsDb' = result.db
           /\ nextDocId' = nextDocId + Len(Staged(batch))
           /\ save' = [ pc |-> "refresh", rows |-> rows,
                        successCount |-> result.successCount,
                        failureCount |-> result.failureCount,
                        commitOk |-> commitOk ]
           /\ lastCommit' = IF commitOk
                            THEN << [i \in DOMAIN rows |-> rows[i].data] >>
                            ELSE lastCommit
    /\ UNCHANGED << rosterUpload, students, pendingMaps, nextRowId, toast,
                    lastChosen, pipeVars, decVars, smsVars, feedVars >>

\* the reads after the commit (studentsService.getAll, getInitialData) and
\* the rest of handleSave: on success the toast and clearRosterPreview, on a
\* rejected read the error toast
SaveFinish(readsOk) ==
    /\ save.pc = "refresh"
    /\ IF readsOk
       THEN /\ students' = studentsDb
            /\ toast' = [status |-> "success", title |-> "Roster saved",
                         successCount |-> save.successCount,
                         failureCount |-> save.failureCount]
            /\ rosterUpload' = << >>
            /\ lastChosen' = << >>
       ELSE /\ toast' = Toast("error", "Upload failed")
            /\ UNCHANGED << students, rosterUpload, lastChosen >>
    /\ save' = IdleSave
    /\ UNCHANGED << pendingMaps, studentsDb, nextRowId,
                    nextDocId, lastCommit, events,
                    pipeVars, decVars, smsVars, feedVars >>

(***************************************************************************)
(* Specification                                                           *)
(***************************************************************************)
\* the mapping changes and the cell edits the user may make
MapChoices == [key : MapKeys, value : MapColumns]
EditChoices == [rowId : 1..(nextRowId - 1), field : EditFields, value : EditValues]

Next ==
    \/ \E file \in Files : FileChange(file)
    \/ \E choice \in MapChoices : MappingChange(choice.key, choice.value)
    \/ \E op \in pendingMaps : MappingComplete(op)
    \/ \E edit \in EditChoices : RowChange(edit.rowId, edit.field, edit.value)
    \/ ClearPreview
    \/ \E commitOk \in BOOLEAN : SaveCommit(commitOk)
    \/ \E readsOk \in BOOLEAN : SaveFinish(readsOk)

Spec == Init /\ [][Next]_vars

(***************************************************************************)
(* The stages as functions: Column Mapper, then Row Validator, then the    *)
(* re-validation of edited rows, each applied to arguments drawn from the  *)
(* files above and from mappings that need not name a column of the file.  *)
(***************************************************************************)
PipeFiles == { FileSample, FileMessy }
PipeKeys == { "student_id", "email", "remarks" }
PipeColumns == { "Gender", "Notes", "Absent" }
PipeEditFields == { "student_id", "phone_number" }
PipeEditValues(field) ==
    IF field = "student_id"
    THEN { "", "7" }
    ELSE { "", "9876543210", "987654321", "+91 98765-43210" }

InitPipeline ==
    /\ PageInit
    /\ DecOff
    /\ SmsOff
    /\ FeedOff
    /\ pipePc = "decoded"
    /\ \E file \in PipeFiles :
          /\ pipeRows = ParsedRows(file, 1)
          /\ pipeMapping = defaultMapping(columnsToUse(file))
    /\ pipeMapped = << >>
    /\ pipeValIn = << >>
    /\ pipeValOut = << >>
    /\ pipeEdits = 0

\* one entry of the mapping is replaced before the mapper runs
PipeRemap(key, value) ==
    /\ pipePc = "decoded"
    /\ pipeMapping' = nextMapping(pipeMapping, key, value)
    /\ UNCHANGED << pipePc, pipeRows, pipeMapped, pipeValIn, pipeValOut, pipeEdits,
                    pageVars, decVars, smsVars, feedVars >>

\* mapRosterColumns(mapping, originalRows)
PipeMap ==
    /\ pipePc = "decoded"
    /\ pipeMapped' = mapRosterColumnsInternal(pipeMapping, pipeRows)
    /\ pipePc' = "mapped"
    /\ UNCHANGED << pipeMapping, pipeRows, pipeValIn, pipeValOut, pipeEdits, pageVars, decVars, smsVars, feedVars >>

\* validateRows(mappedRows)
PipeValidate ==
    /\ pipePc = "mapped"
    /\ pipeValIn' = pipeMapped
    /\ pipeValOut' = validateRows(pipeMapped)
    /\ pipePc' = "validated"
    /\ UNCHANGED << pipeMapping, pipeRows, pipeMapped, pipeEdits, pageVars, decVars, smsVars, feedVars >>

\* validateRows(rows.map(...)) of handleRowChange
PipeEdit(rowId, field, value) ==
    /\ pipePc = "validated"
    /\ pipeEdits < MaxPipeEdits
    /\ \E i \in DOMAIN pipeValOut : pipeValOut[i].rowId = rowId
    /\ pipeValIn' = EditedRows(pipeValOut, rowId, field, value)
    /\ pipeValOut' = validateRows(EditedRows(pipeValOut, rowId, field, value))
    /\ pipeEdits' = pipeEdits + 1
    /\ UNCHANGED << pipePc, pipeMapping, pipeRows, pipeMapped, pageVars, decVars, smsVars, feedVars >>

PipeMapChoices == [key : PipeKeys, value : PipeColumns]
PipeEditChoices ==
    UNION { [rowId : 1..Len(pipeRows), field : {field}, value : PipeEditValues(field)] :
               field \in PipeEditFields }

NextPipeline ==
    \/ \E choice \in PipeMapChoices : PipeRemap(choice.key, choice.value)
    \/ PipeMap
    \/ PipeValidate
    \/ \E edit \in PipeEditChoices : PipeEdit(edit.rowId, edit.field, edit.value)

SpecPipeline == InitPipeline /\ [][NextPipeline]_vars

(***************************************************************************)
(* The File Decoder on its own: parseRosterFile applied to one file, then  *)
(* the rest of handleFileChange on what it returned, starting from a page  *)
(* without preview or from a page that shows the preview of FileSample.    *)
(***************************************************************************)
\* the sequences over S of length 0..n
SeqsUpTo(S, n) == UNION { [1..k -> S] : k \in 0..n }

\* rows a sheet may hold: file-structure noise, a title, header rows (one
\* with a repeated and a bracketed cell), data rows, a row of blanks
SheetRows ==
    { << "[Content_Types].xml", "", "" >>,
      << "Roster 2024", "", "" >>,
      << "Student_ID", "Name", "Email" >>,
      << "Name", "Name", "Score [%]" >>,
      << "STU001", " Ann ", "a@b.c" >>,
      << "v", "", "" >>,
      << " ", "", "" >> }

XlsxFile(structure, jsonData) ==
    [ kind |-> "xlsx", structure |-> structure, jsonData |-> jsonData,
      text |-> "", cells |-> << >> ]

\* a sheet whose header comes after ten rows of noise
DeepSheet ==
    [i \in 1..12 |-> IF i <= 10 THEN << "[Content_Types].xml", "", "" >>
                     ELSE IF i = 11 THEN << "Student_ID", "Name", "Email" >>
                     ELSE << "STU001", " Ann ", "a@b.c" >>]

XlsxFiles ==
    { XlsxFile("ok", jsonData) : jsonData \in SeqsUpTo(SheetRows, MaxSheetRows) }
    \cup { XlsxFile(structure, << >>) :
              structure \in { "tooSmall", "unreadable", "noSheets", "noRef" } }
    \cup { XlsxFile("ok", DeepSheet) }

\* a cell value as a writer of delimited text puts it on a line: in double
\* quotes, with every quote doubled, when it holds a comma or a quote
RECURSIVE DoubleQuotes(_)
DoubleQuotes(v) ==
    IF v = "" THEN ""
    ELSE (IF Head(v) = "\"" THEN "\"\"" ELSE Head(v)) \o DoubleQuotes(Tail(v))

EncodeCell(v) ==
    IF Includes(v, ",") \/ Includes(v, "\"")
    THEN "\"" \o DoubleQuotes(v) \o "\""
    ELSE v

RECURSIVE EncodeLine(_)
EncodeLine(cells) ==
    IF Len(cells) = 0 THEN ""
    ELSE IF Len(cells) = 1 THEN EncodeCell(cells[1])
    ELSE EncodeCell(cells[1]) \o "," \o EncodeLine(Tail(cells))

\* the lines, each ended by CR LF
RECURSIVE EncodeText(_)
EncodeText(cells) ==
    IF Len(cells) = 0 THEN ""
    ELSE EncodeLine(cells[1]) \o "\r\n" \o EncodeText(Tail(cells))

CsvFile(cells) ==
    [ kind |-> "csv", structure |-> "ok", jsonData |-> << >>,
      text |-> EncodeText(cells), cells |-> cells ]

\* header lines: plain, identifier not first, repeated name, cells to replace
CsvHeaders ==
    { << "ID", "Name" >>, << "Full Name", "ID" >>, << "ID", "ID" >>, << "", "<x>" >> }

\* data lines: a quoted comma, a quoted quote at the end of a cell, empty
\* cells, padded and missing cells, a number above both numeric ranges
CsvDataLines ==
    { << "STU001", "Smith, John" >>, << "7", "say \"hi\"" >>, << "", "" >>,
      << " 8 ", "" >>, << "101", "x" >> }

CsvFiles ==
    { CsvFile(<< header >> \o data) :
          header \in CsvHeaders, data \in SeqsUpTo(CsvDataLines, MaxCsvRows) }
    \cup { CsvFile(<< >>) }

DecFiles == XlsxFiles \cup CsvFiles

\* the page after handleFileChange has loaded FileSample
PageAfterSample ==
    /\ rosterUpload =
          << [ columns |-> columnsToUse(FileSample),
               mapping |-> defaultMapping(columnsToUse(FileSample)),
               originalRows |-> ParsedRows(FileSample, 1),
               rows |-> validateRows(mapRosterColumnsInternal(
                            defaultMapping(columnsToUse(FileSample)),
                            ParsedRows(FileSample, 1))) ] >>
    /\ students = {}
    /\ pendingMaps = {}
    /\ save = IdleSave
    /\ studentsDb = {}
    /\ nextRowId = 1 + Len(FileSample.raws)
    /\ nextDocId = 1
    /\ toast = Toast("success", "File parsed")
    /\ lastCommit = << >>
    /\ lastChosen = << >>
    /\ events = 1

InitDecoder ==
    /\ PageInit \/ PageAfterSample
    /\ PipeOff
    /\ SmsOff
    /\ FeedOff
    /\ decPc = "chosen"
    /\ decFile \in DecFiles
    /\ decResult = << >>
    /\ decSplit = << >>

\* the cleaned cells of the non-blank lines of a text: the header cells as
\* h.trim().replace(...), the cells of a data line as
\* values[index]?.trim().replace(...) of the trimmed line
SplitCells(text) ==
    LET lines == NonBlankLines(text)
    IN  [i \in DOMAIN lines |->
            LET values == parseCSVLine(IF i = 1 THEN lines[i] ELSE Trim(lines[i]))
            IN  [j \in DOMAIN values |-> CleanCell(values[j])]]

\* await loadRosterPreview(file)
DecodeFile ==
    /\ decPc = "chosen"
    /\ decResult' = parseRosterFile(decFile)
    /\ decSplit' = IF decFile.kind = "csv" THEN SplitCells(decFile.text) ELSE << >>
    /\ decPc' = "decoded"
    /\ UNCHANGED << decFile, pageVars, pipeVars, smsVars, feedVars >>

\* the rest of handleFileChange: the guess, the mapper, the validator and
\* setRosterUploadState, or the toast of the catch
DecLoad ==
    /\ decPc = "decoded"
    /\ decPc' = "loaded"
    /\ IF decResult.ok /\ Len(columnsToUse(decResult)) > 0
       THEN LET rows == ParsedRows(decResult, nextRowId)
                mapping == defaultMapping(columnsToUse(decResult))
            IN  /\ rosterUpload' = << [ columns |-> columnsToUse(decResult),
                                        mapping |-> mapping,
                                        originalRows |-> rows,
                                        rows |-> validateRows(
                                            mapRosterColumnsInternal(mapping, rows)) ] >>
                /\ nextRowId' = nextRowId + Len(rows)
                /\ toast' = Toast("success", "File parsed")
       ELSE /\ toast' = Toast("error", "Parse error")
            /\ UNCHANGED << rosterUpload, nextRowId >>
    /\ UNCHANGED << students, pendingMaps, save, studentsDb, nextDocId, lastCommit,
                    lastChosen, events, decFile, decResult, decSplit, pipeVars,
                    smsVars, feedVars >>

NextDecoder ==
    \/ DecodeFile
    \/ DecLoad

SpecDecoder == InitDecoder /\ [][NextDecoder]_vars

(***************************************************************************)
(* Quick send: firebaseApi.quickSendAnnouncement, sendBulkSMS and sendSMS   *)
(* (services/firebaseService.ts).  The settings hold an API key; the        *)
(* targets are the students of the chosen scope.                            *)
(***************************************************************************)
\* how many students a target list holds
MaxTargets == 7

\* batchSize of sendBulkSMS, and the 6 of quickSendAnnouncement
BatchSize == 6

\* num.replace(/[\s+\-()]/g, "")
RECURSIVE StripPhoneChars(_)
StripPhoneChars(num) ==
    IF num = "" THEN ""
    ELSE IF IsWhitespace(Head(num)) \/ Head(num) \in {"+", "-", "(", ")"}
         THEN StripPhoneChars(Tail(num))
         ELSE Head(num) \o StripPhoneChars(Tail(num))

\* .replace(/^91/, "")
StripLeading91(num) ==
    IF Len(num) >= 2 /\ SubSeq(num, 1, 2) = "91" THEN SubSeq(num, 3, Len(num)) ELSE num

\* the cleaned number of sendSMS
CleanNumber(num) == StripLeading91(StripPhoneChars(num))

\* cleaned.length === 10 && /^\d{10}$/.test(cleaned)
IsCleanNumber(cleaned) ==
    Len(cleaned) = 10 /\ \A k \in 1..Len(cleaned) : IsDigit(CharAt(cleaned, k))

\* cleanNumbers of sendSMS: the cleaned numbers that are kept
cleanNumbers(numbers) ==
    SelectSeq([i \in DOMAIN numbers |-> CleanNumber(numbers[i])], IsCleanNumber)

\* phoneNumbers of quickSendAnnouncement
phoneNumbers(targets) ==
    SelectSeq([i \in DOMAIN targets |-> targets[i].parentPrimaryPhone],
              LAMBDA phone : Len(Trim(phone)) > 0)

\* batches.length of sendBulkSMS
BatchCount(numbers) == (Len(numbers) + BatchSize - 1) \div BatchSize

\* numbers.slice(i, i + batchSize) for the batch of index batchIndex, from 0
BatchOf(numbers, batchIndex) ==
    SubSeq(numbers, batchIndex * BatchSize + 1,
           IF (batchIndex + 1) * BatchSize < Len(numbers)
           THEN (batchIndex + 1) * BatchSize ELSE Len(numbers))

\* sendSMS: what it resolves to (return = TRUE) or that it throws (return =
\* FALSE), and the numbers it has posted to the vendor
sendSMS(message, numbers, vendorOk) ==
    IF Len(Trim(message)) = 0 \/ Len(numbers) = 0 \/ Len(cleanNumbers(numbers)) = 0
    THEN [ return |-> FALSE, posted |-> << >> ]
    ELSE [ return |-> vendorOk, posted |-> cleanNumbers(numbers) ]

\* successfulNumbers of quickSendAnnouncement
successfulNumbers(numbers, results) ==
    UNION { Range(BatchOf(numbers, k - 1)) : k \in { j \in DOMAIN results : results[j] } }

\* the notification logs built for the targets
NotificationsOf(targets, successful) ==
    [i \in DOMAIN targets |->
        [ studentId |-> targets[i].studentId,
          parentPhone |-> targets[i].parentPrimaryPhone,
          status |-> IF targets[i].parentPrimaryPhone \in successful
                     THEN "sent" ELSE "failed" ]]

\* the phone numbers of the students: ten digits, ten digits behind the
\* country code, ten digits that begin with 91, too few digits, none
SmsPhones == { "9876543210", "+91 98765-43211", "9123456780", "12345", "" }

\* the phone of the students between the first and the last
BasePhone(i) == "800000000" \o CharAt("0123456789", i + 1)

\* n students; the first has phone a, the last has phone b
TargetList(n, a, b) ==
    [i \in 1..n |->
        [ studentId |-> i,
          parentPrimaryPhone |-> IF i = n THEN b ELSE IF i = 1 THEN a ELSE BasePhone(i) ]]

SmsTargetLists ==
    { TargetList(n, a, b) : n \in 0..MaxTargets, a \in SmsPhones, b \in SmsPhones }

\* `${payload.title}\n\n${payload.message}` with and without text
SmsMessages == { "Fee\n\nDue on Monday", "\n\n" }

InitSms ==
    /\ PageInit
    /\ PipeOff
    /\ DecOff
    /\ FeedOff
    /\ smsPc = "start"
    /\ smsTargets \in SmsTargetLists
    /\ smsMessage \in SmsMessages
    /\ smsResults = << >>
    /\ smsForwarded = << >>
    /\ smsNotifications = << >>
    /\ smsReturn = NoReturn

\* quickSendAnnouncement up to the call of sendBulkSMS
QuickSendStart ==
    /\ smsPc = "start"
    /\ smsPc' = IF Len(smsTargets) = 0 \/ Len(phoneNumbers(smsTargets)) = 0
                THEN "failed"
                ELSE "sending"
    /\ UNCHANGED << smsTargets, smsMessage, smsResults, smsForwarded, smsNotifications,
                    smsReturn, pageVars, pipeVars, decVars, feedVars >>

\* one iteration of the loop of sendBulkSMS over the batches
SendBatch(vendorOk) ==
    /\ smsPc = "sending"
    /\ Len(smsResults) < BatchCount(phoneNumbers(smsTargets))
    /\ LET batch == BatchOf(phoneNumbers(smsTargets), Len(smsResults))
           result == sendSMS(smsMessage, batch, vendorOk)
       IN  /\ smsResults' = Append(smsResults, result.return)
           /\ smsForwarded' = Append(smsForwarded, result.posted)
    /\ UNCHANGED << smsPc, smsTargets, smsMessage, smsNotifications, smsReturn,
                    pageVars, pipeVars, decVars, feedVars >>

\* sendBulkSMS returns results
SendBulkReturn ==
    /\ smsPc = "sending"
    /\ Len(smsResults) = BatchCount(phoneNumbers(smsTargets))
    /\ smsPc' = "sent"
    /\ UNCHANGED << smsTargets, smsMessage, smsResults, smsForwarded, smsNotifications,
                    smsReturn, pageVars, pipeVars, decVars, feedVars >>

\* the rest of quickSendAnnouncement: the announcement record, the
\* notification logs and the counts; a rejected write of the announcement
\* record ends the call before any log is created
LogNotifications(storeOk) ==
    /\ smsPc = "sent"
    /\ IF storeOk
       THEN LET successful == successfulNumbers(phoneNumbers(smsTargets), smsResults)
            IN  /\ smsNotifications' = NotificationsOf(smsTargets, successful)
                /\ smsReturn' = [ sentCount |-> Cardinality(successful),
                                  totalCount |-> Len(smsTargets),
                                  failedCount |-> Len(smsTargets) - Cardinality(successful) ]
                /\ smsPc' = "done"
       ELSE /\ smsPc' = "failed"
            /\ UNCHANGED << smsNotifications, smsReturn >>
    /\ UNCHANGED << smsTargets, smsMessage, smsResults, smsForwarded,
                    pageVars, pipeVars, decVars, feedVars >>

NextSms ==
    \/ QuickSendStart
    \/ \E vendorOk \in BOOLEAN : SendBatch(vendorOk)
    \/ SendBulkReturn
    \/ \E storeOk \in BOOLEAN : LogNotifications(storeOk)

SpecSms == InitSms /\ [][NextSms]_vars

(***************************************************************************)
(* The biometric feed (api/mockApi.ts): subscribeToBiometricFeed, the       *)
(* unsubscribe functions it returns, startBiometricStream,                  *)
(* stopBiometricStream and the interval callback.                           *)
(***************************************************************************)
\* how many subscribe and unsubscribe calls a behaviour holds, and how many
\* events the timers emit
MaxFeedOps == 5
MaxFeedEvents == 2

\* the listener functions of the components
FeedListeners == { "dashboard", "attendance", "kiosk" }

\* the timer state: the id held by the module, the intervals set and not
\* cleared, the next id, and whether setInterval was called
TimerState(intervalId, timers, nextId, started) ==
    [ intervalId |-> intervalId, timers |-> timers, nextId |-> nextId,
      started |-> started ]

\* the start, had it set an interval without looking at biometricIntervalId
startBiometricStream_NoGuard(intervalId, timers, nextId) ==
    TimerState(nextId, timers \cup {nextId}, nextId + 1, TRUE)

startBiometricStream(intervalId, timers, nextId) ==
    IF intervalId # NoTimer
    THEN TimerState(intervalId, timers, nextId, FALSE)
    ELSE TimerState(nextId, timers \cup {nextId}, nextId + 1, TRUE)

stopBiometricStream(intervalId, timers, nextId) ==
    IF intervalId # NoTimer
    THEN TimerState(NoTimer, timers \ {intervalId}, nextId, FALSE)
    ELSE TimerState(intervalId, timers, nextId, FALSE)

InitFeed ==
    /\ PageInit
    /\ PipeOff
    /\ DecOff
    /\ SmsOff
    /\ FeedOff

\* api.subscribeToBiometricFeed(listener)
Subscribe(listener) ==
    /\ feedOps < MaxFeedOps
    /\ feedOps' = feedOps + 1
    /\ biometricListeners' = biometricListeners \cup {listener}
    /\ feedClosures' = feedClosures \cup {listener}
    /\ LET timer == IF Cardinality(biometricListeners') = 1
                    THEN startBiometricStream(biometricIntervalId, feedTimers, feedNextId)
                    ELSE TimerState(biometricIntervalId, feedTimers, feedNextId, FALSE)
       IN  /\ biometricIntervalId' = timer.intervalId
           /\ feedTimers' = timer.timers
           /\ feedNextId' = timer.nextId
           /\ feedStarts' = IF timer.started THEN feedStarts + 1 ELSE feedStarts
    /\ UNCHANGED << feedEvents, pageVars, pipeVars, decVars, smsVars >>

\* a call of the function a subscribe call has returned for the listener
Unsubscribe(listener) ==
    /\ listener \in feedClosures
    /\ feedOps < MaxFeedOps
    /\ feedOps' = feedOps + 1
    /\ biometricListeners' = biometricListeners \ {listener}
    /\ LET timer == IF Cardinality(biometricListeners') = 0
                    THEN stopBiometricStream(biometricIntervalId, feedTimers, feedNextId)
                    ELSE TimerState(biometricIntervalId, feedTimers, feedNextId, FALSE)
       IN  /\ biometricIntervalId' = timer.intervalId
           /\ feedTimers' = timer.timers
           /\ feedNextId' = timer.nextId
    /\ feedStarts' = IF biometricListeners' = {} THEN 0 ELSE feedStarts
    /\ UNCHANGED << feedClosures, feedEvents, pageVars, pipeVars, decVars, smsVars >>

\* the callback of an interval that is set: emitBiometricEvent
Tick ==
    /\ feedTimers # {}
    /\ feedEvents < MaxFeedEvents
    /\ feedEvents' = feedEvents + 1
    /\ UNCHANGED << biometricListeners, biometricIntervalId, feedTimers, feedClosures,
                    feedStarts, feedNextId, feedOps, pageVars, pipeVars, decVars, smsVars >>

NextFeed ==
    \/ \E listener \in FeedListeners : Subscribe(listener)
    \/ \E listener \in FeedListeners : Unsubscribe(listener)
    \/ Tick

SpecFeed == InitFeed /\ [][NextFeed]_vars

(***************************************************************************)
(* Properties of the commit (Spec)                                         *)
(***************************************************************************)
\* a step of SaveCommit
IsCommitStep == save.pc = "idle" /\ save'.pc = "refresh"

\* the field values held by a collection
FieldValues(db) == { d.fields : d \in db }

\* the rows of a batch all have an empty violation set
AllClean(rows) == \A i \in DOMAIN rows : rows[i].errors = << >>

\* C1 -- Commit idempotence: when a batch of rows that all have an empty
\* violation set is committed a second time, right after the store accepted
\* the same batch, the persisted collection keeps its size and its field
\* values; the second commit creates no student.
C1_CommitIdempotent ==
    [][ ( /\ IsCommitStep
          /\ AllClean(save'.rows)
          /\ lastCommit = << [i \in DOMAIN save'.rows |-> save'.rows[i].data] >> )
        => ( /\ Cardinality(studentsDb') = Cardinality(studentsDb)
             /\ FieldValues(studentsDb') = FieldValues(studentsDb) ) ]_vars

\* at most one persisted student per student identifier
OnePerIdentifier(db) ==
    \A d1 \in db : \A d2 \in db :
        d1.fields.studentId = d2.fields.studentId => d1 = d2

\* C2 -- Upsert by natural key: the collection holds at most one student per
\* student identifier; a committed clean row whose identifier is already
\* persisted overwrites that student and keeps its opaque id, and only a row
\* with a new identifier creates an entity, under a fresh opaque id.
C2_UpsertByNaturalKey ==
    [][ (IsCommitStep /\ save'.successCount > 0)
        => ( /\ OnePerIdentifier(studentsDb')
             /\ \A i \in DOMAIN EligibleRows(save'.rows) :
                   LET st == StudentOf(EligibleRows(save'.rows)[i])
                   IN  IF \E d \in studentsDb : d.fields.studentId = st.studentId
                       THEN \E d \in studentsDb :
                               /\ d.fields.studentId = st.studentId
                               /\ [id |-> d.id, fields |-> st] \in studentsDb'
                       ELSE \E d \in studentsDb' :
                               /\ d.fields = st
                               /\ \A e \in studentsDb : e.id # d.id ) ]_vars

\* C3 -- Commit counts: successCount is the number of rows upserted and
\* failureCount is the number of input rows minus successCount, so every
\* input row that carries a violation is counted as a failure.
C3_CommitCounts ==
    [][ IsCommitStep
        => ( /\ save'.successCount = Cardinality(studentsDb' \ studentsDb)
             /\ save'.failureCount = Len(save'.rows) - save'.successCount ) ]_vars

\* C4 -- No row with a violation is committed: in every step the persisted
\* students stay as they are, and each student the step adds is the student
\* of a row of the saved preview whose violation list is empty, whole; no
\* more students are added than there are such rows.
C4_NoViolatingRowCommitted ==
    [][ /\ studentsDb \subseteq studentsDb'
        /\ (studentsDb' # studentsDb =>
              /\ rosterUpload # << >>
              /\ \A d \in studentsDb' \ studentsDb :
                    \E i \in DOMAIN rosterUpload[1].rows :
                        /\ rosterUpload[1].rows[i].errors = << >>
                        /\ d.fields = StudentOf(rosterUpload[1].rows[i])
              /\ Cardinality(studentsDb' \ studentsDb)
                    <= Cardinality({ i \in DOMAIN rosterUpload[1].rows :
                                        rosterUpload[1].rows[i].errors = << >> }) ) ]_vars

\* a batch with a clean row and a row with a violation has been committed
C4_Witness ==
    /\ save.pc = "refresh"
    /\ save.successCount > 0
    /\ studentsDb # {}
    /\ \E i \in DOMAIN save.rows : save.rows[i].errors # << >>
    /\ \E i \in DOMAIN save.rows : save.rows[i].errors = << >>

(***************************************************************************)
(* Properties of the mapping changes (Spec)                                *)
(***************************************************************************)
\* a step of MappingComplete: the only step that takes a request out of
\* pendingMaps
IsMappingCompleteStep == pendingMaps' # pendingMaps /\ pendingMaps' \subseteq pendingMaps

\* a step of RowChange: the only event that changes a stored preview without
\* handing out row identifiers
IsRowChangeStep ==
    /\ rosterUpload # << >> /\ rosterUpload' # << >>
    /\ rosterUpload' # rosterUpload
    /\ events' # events
    /\ nextRowId' = nextRowId

\* the stored rows are the stored original rows, mapped under the stored
\* mapping and validated
RowsFromSourceTruth(upload) ==
    upload.rows = validateRows(mapRosterColumnsInternal(upload.mapping, upload.originalRows))

\* C7 -- Remapping always starts from source truth: after every completed
\* mapping change the preview rows are the stored original rows mapped under
\* the new mapping and validated, and neither a completed mapping change nor
\* a preview cell edit modifies the original rows of the stored preview.
C7_RemapFromSourceTruth ==
    [][ /\ IsMappingCompleteStep =>
              /\ rosterUpload' # << >>
              /\ RowsFromSourceTruth(rosterUpload'[1])
              /\ rosterUpload # << >> =>
                    rosterUpload'[1].originalRows = rosterUpload[1].originalRows
        /\ IsRowChangeStep =>
              rosterUpload'[1].originalRows = rosterUpload[1].originalRows ]_vars

\* C8 -- No stale state under repeated mapping edits: at the step where the
\* last pending mapping change completes, the stored mapping holds the last
\* column chosen for every field changed since the file was loaded, and the
\* stored rows are the original rows mapped under that stored mapping.
C8_NoStaleMapping ==
    [][ (pendingMaps # {} /\ pendingMaps' = {}) =>
            /\ rosterUpload' # << >>
            /\ \A key \in DOMAIN lastChosen' :
                  /\ key \in DOMAIN rosterUpload'[1].mapping
                  /\ rosterUpload'[1].mapping[key] = lastChosen'[key]
            /\ RowsFromSourceTruth(rosterUpload'[1]) ]_vars

\* a step of FileChange that stored a new preview: the only step that hands
\* out row identifiers
IsLoadStep == nextRowId' # nextRowId

\* no column of the list matches the field under the guess of handleFileChange
NoColumnMatches(field, columns) ==
    \A i \in DOMAIN columns : ~ColumnMatches(field, columns[i])

\* C11 -- The field mapping is total over the canonical fields: in every
\* roster upload state the mapping has exactly the eleven canonical fields as
\* keys and every mapped value is a column name of the stored file, and the
\* load maps a field that no column matches to the first column.
C11_MappingTotal ==
    [][ rosterUpload' # << >> =>
          /\ DOMAIN rosterUpload'[1].mapping = FieldKeys
          /\ Cardinality(FieldKeys) = 11
          /\ \A f \in FieldKeys :
                rosterUpload'[1].mapping[f] \in Range(rosterUpload'[1].columns)
          /\ IsLoadStep =>
                \A i \in DOMAIN requiredFields :
                    NoColumnMatches(requiredFields[i], rosterUpload'[1].columns)
                      => rosterUpload'[1].mapping[requiredFields[i].key]
                            = rosterUpload'[1].columns[1] ]_vars

\* a completed mapping change has replaced the guess for a field, in a file
\* where some field has no matching column
C11_Witness ==
    /\ rosterUpload # << >>
    /\ pendingMaps = {}
    /\ \E key \in DOMAIN lastChosen :
          /\ rosterUpload[1].mapping[key] = lastChosen[key]
          /\ rosterUpload[1].mapping[key] # defaultMapping(rosterUpload[1].columns)[key]
    /\ \E i \in DOMAIN requiredFields :
          NoColumnMatches(requiredFields[i], rosterUpload[1].columns)

(***************************************************************************)
(* Properties of the validator and the mapper (SpecPipeline)               *)
(***************************************************************************)
PipeMappedReady == pipePc \in { "mapped", "validated" }
PipeValidatedReady == pipePc = "validated"

\* the position of the first row holding the student identifier of row i
FirstHolder(rows, i) ==
    CHOOSE j \in 1..i :
        /\ rows[j].data["student_id"] = rows[i].data["student_id"]
        /\ \A k \in 1..(j - 1) :
              rows[k].data["student_id"] # rows[i].data["student_id"]

\* row i is unmarked
Unmarked(rows, i, msg) ==
    /\ rows[i].duplicateOf = NoRow
    /\ msg \notin Range(rows[i].errors)

\* row i is unmarked if it is the first holder of its identifier, and is
\* marked as a duplicate of the first holder otherwise
FirstSeen(rows, i, msg) ==
    IF FirstHolder(rows, i) = i
    THEN Unmarked(rows, i, msg)
    ELSE /\ rows[i].duplicateOf = rows[FirstHolder(rows, i)].rowId
         /\ msg \in Range(rows[i].errors)

\* C5, as claimed -- First-seen duplicate invariant: of the rows sharing a
\* student identifier the first is never marked as a duplicate, and every
\* later one has duplicateOf equal to the row identifier of the first and
\* carries the duplicate violation.
C5_FirstSeenAnyIdentifier ==
    /\ PipeValidatedReady =>
          \A i \in DOMAIN pipeValOut : FirstSeen(pipeValOut, i, "Duplicate student ID")
    /\ PipeMappedReady =>
          \A i \in DOMAIN pipeMapped :
              FirstSeen(pipeMapped, i, "Duplicate student_id in file")

\* the statement restricted to rows that have an identifier; a row without
\* one is never marked
FirstSeenNonEmpty(rows, i, msg) ==
    IF rows[i].data["student_id"] # ""
    THEN FirstSeen(rows, i, msg)
    ELSE Unmarked(rows, i, msg)

\* C5, amended -- of the rows sharing a non-empty student identifier the
\* first is never marked as a duplicate and every later one has duplicateOf
\* equal to the row identifier of the first and carries the duplicate
\* violation; rows with an empty identifier are never marked.
C5_FirstSeenNonEmptyIdentifier ==
    /\ PipeValidatedReady =>
          \A i \in DOMAIN pipeValOut :
              FirstSeenNonEmpty(pipeValOut, i, "Duplicate student ID")
    /\ PipeMappedReady =>
          \A i \in DOMAIN pipeMapped :
              FirstSeenNonEmpty(pipeMapped, i, "Duplicate student_id in file")

\* three validated rows share a non-empty identifier and the third points to
\* the first
C5_Witness ==
    /\ PipeValidatedReady
    /\ \E i \in DOMAIN pipeValOut : \E j \in DOMAIN pipeValOut : \E k \in DOMAIN pipeValOut :
          /\ i < j /\ j < k
          /\ pipeValOut[i].data["student_id"] # ""
          /\ pipeValOut[j].data["student_id"] = pipeValOut[i].data["student_id"]
          /\ pipeValOut[k].data["student_id"] = pipeValOut[i].data["student_id"]
          /\ pipeValOut[k].duplicateOf = pipeValOut[i].rowId

\* the rows of out are those of in, in order: same length, same row
\* identifiers, same raw cells
SameRowsInOrder(in, out) ==
    /\ Len(out) = Len(in)
    /\ \A i \in DOMAIN in :
          /\ out[i].rowId = in[i].rowId
          /\ out[i].raw = in[i].raw

\* C6 -- Validator totality: for every input sequence the validator returns
\* exactly one result per input row, in the same order and with the same row
\* identifiers (and the same cell values); no row is dropped, added or moved.
C6_ValidatorTotality ==
    /\ PipeValidatedReady =>
          /\ SameRowsInOrder(pipeValIn, pipeValOut)
          /\ \A i \in DOMAIN pipeValIn : pipeValOut[i].data = pipeValIn[i].data
    /\ PipeMappedReady => SameRowsInOrder(pipeRows, pipeMapped)

\* the validator has run on edited rows that hold an empty field and a
\* repeated identifier
C6_Witness ==
    /\ PipeValidatedReady
    /\ pipeEdits > 0
    /\ \E i \in DOMAIN pipeValOut : pipeValOut[i].duplicateOf # NoRow
    /\ \E i \in DOMAIN pipeValOut : \E f \in FieldKeys : pipeValOut[i].data[f] = ""

\* C10, as claimed -- the Column Mapper returns one row per input row, in
\* input order, each with its original row identifier, an empty violation set
\* and no duplicate marker.
C10_MapperAttachesNothing ==
    PipeMappedReady =>
        /\ SameRowsInOrder(pipeRows, pipeMapped)
        /\ \A i \in DOMAIN pipeMapped :
              /\ pipeMapped[i].errors = << >>
              /\ pipeMapped[i].duplicateOf = NoRow

\* an earlier row holds the identifier of row i, which is not empty
RepeatsEarlier(rows, i) ==
    /\ rows[i].data["student_id"] # ""
    /\ \E j \in 1..(i - 1) : rows[j].data["student_id"] = rows[i].data["student_id"]

\* row i passes the checks the mapper applies to what it returns
PassesMapperChecks(rows, i) ==
    /\ \A f \in FieldKeys : rows[i].data[f] # ""
    /\ Len(DigitsOnly(rows[i].data["phone_number"])) = 10
    /\ Len(DigitsOnly(rows[i].data["parent_number"])) = 10
    /\ isValidEmail(rows[i].data["email"])
    /\ ~RepeatsEarlier(rows, i)

\* C10, amended -- the Column Mapper returns one row per input row, in input
\* order, each with its original row identifier; it validates what it
\* returns, so a returned row has an empty violation set exactly when its
\* eleven fields are non-empty, both phone numbers have 10 digits, the email
\* has the minimal shape and no earlier row holds its identifier, and it
\* carries a duplicate marker exactly when an earlier row holds its non-empty
\* identifier.
C10_MapperValidates ==
    PipeMappedReady =>
        /\ SameRowsInOrder(pipeRows, pipeMapped)
        /\ \A i \in DOMAIN pipeMapped :
              /\ (pipeMapped[i].errors = << >>) <=> PassesMapperChecks(pipeMapped, i)
              /\ (pipeMapped[i].duplicateOf # NoRow) <=> RepeatsEarlier(pipeMapped, i)

\* the mapper has returned a row without violation and a row with one
C10_Witness ==
    /\ pipePc = "mapped"
    /\ \E i \in DOMAIN pipeMapped : pipeMapped[i].errors = << >>
    /\ \E i \in DOMAIN pipeMapped : pipeMapped[i].errors # << >>

(***************************************************************************)
(* Properties of the File Decoder and of the load (SpecDecoder)            *)
(***************************************************************************)
\* parseRosterFile has returned or thrown
DecodeDone == decPc \in { "decoded", "loaded" }

\* handleFileChange has stored the preview of the decoded file
LoadStored == decPc = "loaded" /\ decResult.ok

\* the special pairings of the guess: identifier, phone, email and name field
SpecialPairing(field, colLower) ==
    \/ (field.key = "student_id" /\ Includes(colLower, "id"))
    \/ (field.key = "phone_number" /\ Includes(colLower, "phone"))
    \/ (field.key = "email" /\ Includes(colLower, "email"))
    \/ (field.key = "name" /\ Includes(colLower, "name"))

\* the column matches the field under the stated policy
PolicyMatches(field, col) ==
    \/ Includes(ToLowerCase(col), ToLowerCase(ReplaceUnderscores(field.key)))
    \/ Includes(ToLowerCase(col), ToLowerCase(field.label))
    \/ SpecialPairing(field, ToLowerCase(col))

\* the first column matching the field under the stated policy, or the first
\* column of the file when none matches
PolicyColumn(field, columns) ==
    LET matching == { i \in DOMAIN columns : PolicyMatches(field, columns[i]) }
    IN  IF matching = {} THEN columns[1]
        ELSE columns[CHOOSE i \in matching : \A j \in matching : i <= j]

\* C12 -- Initial mapping guess: for each canonical field the load chooses
\* the first column whose lower-cased name contains the normalized field
\* name, or the display label, or satisfies the field's special pairing (the
\* student identifier field with a column containing "id", and so on), and
\* the first column of the file only when no column matches at all.
C12_InitialGuess ==
    LoadStored =>
        \A i \in DOMAIN requiredFields :
            rosterUpload[1].mapping[requiredFields[i].key]
                = PolicyColumn(requiredFields[i], rosterUpload[1].columns)

\* parseRosterFile has returned a result for a sheet
SheetDecoded == DecodeDone /\ decFile.kind = "xlsx" /\ decResult.ok

\* the row holds one of the header keywords
HasKeyword(row) ==
    \E word \in { "student", "name", "email", "phone", "department", "gender", "id" } :
        Includes(ToLowerCase(JoinSpace(row)), word)

\* the header row under the stated policy: the first of the first ten rows
\* that holds a keyword, else the first row
PolicyHeaderRow(jsonData) ==
    LET first == { i \in DOMAIN jsonData : i <= 10 /\ HasKeyword(jsonData[i]) }
    IN  IF first = {} THEN 1 ELSE CHOOSE i \in first : \A j \in first : i <= j

\* C13 -- Binary-path header detection: the header row is the first row,
\* among the first 10 rows of the sheet, that holds a keyword, and row 0 only
\* when none of them does; the columns come from that row, the rows before
\* it are discarded and the rows after it are the data rows.
C13_HeaderDetection ==
    SheetDecoded =>
        LET header == PolicyHeaderRow(decFile.jsonData)
        IN  /\ decResult.columns = validColumns(decFile.jsonData[header])
            /\ decResult.raws
                  = ExcelRaws(decResult.columns, decFile.jsonData, header + 1)

\* the entries of a sequence are pairwise distinct
Distinct(seq) == \A i \in DOMAIN seq : \A j \in DOMAIN seq : seq[i] = seq[j] => i = j

\* C14 -- The column list the File Decoder returns is a sequence of pairwise
\* distinct column names, in the binary and in the text path.
C14_DistinctColumns ==
    (DecodeDone /\ decResult.ok) => Distinct(decResult.columns)

\* the file is one parseRosterFile cannot read: a workbook that is too
\* small, unreadable, without sheets, with an empty first sheet, or a text
\* without a non-blank line
Unreadable(file) ==
    IF file.kind = "xlsx"
    THEN file.structure # "ok" \/ Len(file.jsonData) = 0
    ELSE \A i \in DOMAIN SplitLinesFrom(file.text, "") :
            Trim(SplitLinesFrom(file.text, "")[i]) = ""

\* C15 -- Decode outcome: parseRosterFile either raises or returns at least
\* one column and at least one data row; it raises for a file without
\* sheets, with an empty or invalid structure, or with no data row left; when
\* it raises nothing of the file is returned, and the load that follows
\* leaves the roster upload state of the page as it was and reports the error.
C15_DecodeOutcome ==
    [][ /\ DecodeDone' =>
              /\ decResult'.ok => (Len(decResult'.columns) >= 1 /\ Len(decResult'.raws) >= 1)
              /\ ~decResult'.ok => (decResult'.columns = << >> /\ decResult'.raws = << >>)
              /\ Unreadable(decFile') => ~decResult'.ok
        /\ (decPc = "decoded" /\ ~decResult.ok) =>
              /\ rosterUpload' = rosterUpload
              /\ toast'.status = "error" ]_vars

\* the decoder has raised on a file with a header line and data lines that
\* are all empty, and the page still shows the preview it had
C15_Witness ==
    /\ decPc = "loaded"
    /\ ~decResult.ok
    /\ Len(decFile.cells) > 1
    /\ rosterUpload # << >>
    /\ toast.status = "error"

\* C16 -- CSV line splitting: every line of the text yields the cells it
\* encodes -- a comma inside a double-quoted field is not a delimiter, a
\* doubled quote inside a quoted field yields one literal quote character,
\* and the surrounding quotes and the leading and trailing whitespace are
\* removed from every cell.
C16_CsvSplitting ==
    (DecodeDone /\ decFile.kind = "csv") =>
        /\ Len(decSplit) = Len(decFile.cells)
        /\ \A i \in DOMAIN decSplit :
              decSplit[i] = [j \in DOMAIN decFile.cells[i] |-> Trim(decFile.cells[i][j])]

\* the header cell looks like spreadsheet metadata under the stated policy
PolicyMetadata(cell) ==
    \/ Includes(cell, "<") \/ Includes(cell, ">")
    \/ Includes(cell, "xml")
    \/ (Includes(cell, "[") /\ Includes(cell, "]") /\ Len(cell) > 50)

\* C17 -- Binary-path header cleaning: a cell of the header row is replaced
\* by the positional placeholder (Column A, Column B, ..., position modulo
\* 26) exactly when it is empty or looks like spreadsheet metadata (an angle
\* bracket, the substring "xml", or bracketed content and more than 50
\* characters); every other header cell is kept as its trimmed text.
C17_HeaderCleaning ==
    SheetDecoded =>
        LET headerRowRaw == decFile.jsonData[FindHeaderRow(decFile.jsonData, 1)]
        IN  /\ Len(decResult.columns) = Len(headerRowRaw)
            /\ \A i \in DOMAIN headerRowRaw :
                  decResult.columns[i]
                    = IF Trim(headerRowRaw[i]) = "" \/ PolicyMetadata(Trim(headerRowRaw[i]))
                      THEN ColumnLetter(i - 1)
                      ELSE Trim(headerRowRaw[i])

\* the rows of the file that follow the header, as cell sequences: the sheet
\* rows after the header row, or the cells of the text lines after the first
DataRowCells(file) ==
    IF file.kind = "xlsx"
    THEN SubSeq(file.jsonData, FindHeaderRow(file.jsonData, 1) + 1, Len(file.jsonData))
    ELSE Tail(file.cells)

\* how many header cells the file has
HeaderWidth(file) ==
    IF file.kind = "xlsx"
    THEN Len(file.jsonData[FindHeaderRow(file.jsonData, 1)])
    ELSE Len(file.cells[1])

\* the row has a cell under a header column that is not empty after trimming
HasCellUnderHeader(row, width) ==
    \E j \in DOMAIN row : j <= width /\ Trim(row[j]) # ""

\* C18 -- Empty rows are skipped and only those: every returned data row has
\* at least one cell that is non-empty after trimming, and the returned rows
\* are as many as the data rows of the file with a non-empty cell under a
\* header column (none when the decoder raises for want of data rows).
C18_OnlyEmptyRowsSkipped ==
    (DecodeDone /\ ~Unreadable(decFile)) =>
        /\ \A i \in DOMAIN decResult.raws :
              \E c \in DOMAIN decResult.raws[i] : Trim(decResult.raws[i][c]) # ""
        /\ Len(decResult.raws)
              = Len(SelectSeq(DataRowCells(decFile),
                              LAMBDA row : HasCellUnderHeader(row, HeaderWidth(decFile))))

(***************************************************************************)
(* Further properties of the page (Spec)                                   *)
(***************************************************************************)
\* the row identifiers of a row sequence, in order
RowIdsOf(rows) == [i \in DOMAIN rows |-> rows[i].rowId]

\* C19 -- Row identifiers are stable across re-mapping and editing: the
\* preview always holds the row identifiers of the stored original rows, in
\* the same order and pairwise distinct; a preview cell edit keeps them, and
\* a new upload hands out identifiers the previous preview did not hold.
C19_RowIdsStable ==
    [][ /\ rosterUpload' # << >> =>
              /\ RowIdsOf(rosterUpload'[1].rows) = RowIdsOf(rosterUpload'[1].originalRows)
              /\ Distinct(RowIdsOf(rosterUpload'[1].rows))
        /\ IsRowChangeStep =>
              RowIdsOf(rosterUpload'[1].rows) = RowIdsOf(rosterUpload[1].rows)
        /\ (IsLoadStep /\ rosterUpload # << >>) =>
              Range(RowIdsOf(rosterUpload'[1].rows))
                \cap Range(RowIdsOf(rosterUpload[1].rows)) = {} ]_vars

\* a preview of several rows after a completed mapping change and a cell
\* edit made on its result
C19_Witness ==
    /\ rosterUpload # << >>
    /\ pendingMaps = {}
    /\ Len(rosterUpload[1].rows) >= 2
    /\ \E key \in DOMAIN lastChosen :
          /\ rosterUpload[1].mapping[key] = lastChosen[key]
          /\ rosterUpload[1].mapping[key] # defaultMapping(rosterUpload[1].columns)[key]
    /\ ~RowsFromSourceTruth(rosterUpload[1])

FormatViolations ==
    { "Invalid email format",
      "Invalid phone number (must be exactly 10 digits)",
      "Invalid parent number (must be exactly 10 digits)",
      "Invalid CGPA (must be between 0 and 10)",
      "Invalid attendance percentage (must be between 0 and 100)",
      "Duplicate student ID" }

\* the message names the field in human-readable form: it holds the key of
\* the field with the underscores replaced by spaces, in any case
NamesField(msg, f) == Includes(ToLowerCase(msg), ReplaceUnderscores(f))

\* the row carries a missing-field violation that names field f
HasMissingViolation(row, f) ==
    \E k \in DOMAIN row.errors :
        /\ row.errors[k] \notin FormatViolations
        /\ NamesField(row.errors[k], f)

\* C21 -- Required-field check: after validation a row carries a
\* missing-field violation for canonical field f if and only if f is empty in
\* that row, for each of the eleven fields, and the message of the violation
\* names the field in human-readable form, underscores replaced by spaces.
C21_RequiredFieldCheck ==
    PipeValidatedReady =>
        \A i \in DOMAIN pipeValOut : \A f \in FieldKeys :
            HasMissingViolation(pipeValOut[i], f) <=> (pipeValOut[i].data[f] = "")

\* how many characters of s are digits
DigitCount(s) == Cardinality({ k \in 1..Len(s) : IsDigit(CharAt(s, k)) })

\* the phone fields and the violation of each
PhoneViolation ==
    [ phone_number  |-> "Invalid phone number (must be exactly 10 digits)",
      parent_number |-> "Invalid parent number (must be exactly 10 digits)" ]

HasPhoneViolation(row, f) == PhoneViolation[f] \in Range(row.errors)

\* C22 -- Phone check: a non-empty primary or parent phone value yields a
\* phone-format violation if and only if, with every non-digit character
\* removed, it is not exactly 10 digits long ("9876543210" is valid,
\* "987654321" and "+91 98765-43210" are invalid); an empty phone yields no
\* phone-format violation.
C22_PhoneCheck ==
    PipeValidatedReady =>
        \A i \in DOMAIN pipeValOut : \A f \in DOMAIN PhoneViolation :
            LET value == pipeValOut[i].data[f]
            IN  /\ HasPhoneViolation(pipeValOut[i], f)
                       <=> (value # "" /\ DigitCount(value) # 10)
                /\ value = "9876543210" => ~HasPhoneViolation(pipeValOut[i], f)
                /\ value \in { "987654321", "+91 98765-43210" }
                       => HasPhoneViolation(pipeValOut[i], f)

\* the validator has run on a row whose phone has ten digits among other
\* characters, a row whose phone has twelve digits and a row without parent
\* phone
C22_Witness ==
    /\ PipeValidatedReady
    /\ \E i \in DOMAIN pipeValOut :
          /\ pipeValOut[i].data["parent_number"] = "98765-43211"
          /\ ~HasPhoneViolation(pipeValOut[i], "parent_number")
          /\ pipeValOut[i].data["phone_number"] = "+91 98765-43210"
          /\ HasPhoneViolation(pipeValOut[i], "phone_number")
    /\ \E i \in DOMAIN pipeValOut :
          /\ pipeValOut[i].data["phone_number"] = ""
          /\ ~HasPhoneViolation(pipeValOut[i], "phone_number")

(***************************************************************************)
(* Properties of the validation at load (SpecDecoder)                      *)
(***************************************************************************)
\* the rows stored by the load
LoadedRows == rosterUpload[1].rows

HasCgpaViolation(row) ==
    "Invalid CGPA (must be between 0 and 10)" \in Range(row.errors)

HasAttendanceViolation(row) ==
    "Invalid attendance percentage (must be between 0 and 100)" \in Range(row.errors)

\* C23, as claimed -- The numeric range validators are invoked only when the
\* user edits a preview cell: directly after a file is loaded, before any
\* cell edit, no row carries a GPA-range or attendance-range violation,
\* whatever its GPA and attendance values are.
C23_NoRangeCheckAtLoad ==
    LoadStored =>
        \A i \in DOMAIN LoadedRows :
            /\ ~HasCgpaViolation(LoadedRows[i])
            /\ ~HasAttendanceViolation(LoadedRows[i])

\* C23, amended -- The numeric range validators are part of every validation
\* pass, the one of the load included: directly after a file is loaded,
\* before any cell edit, a row carries the GPA-range violation exactly when
\* its GPA is not empty and does not parse as a number in [0, 10], and the
\* attendance-range violation exactly when its attendance percentage is not
\* empty and does not parse as a number in [0, 100] ("7" passes both, "101"
\* fails both, a value that is no number fails both).
C23_RangeCheckAtLoad ==
    LoadStored =>
        \A i \in DOMAIN LoadedRows :
            LET cgpa == LoadedRows[i].data["cgpa"]
                attendance == LoadedRows[i].data["attendance_percentage"]
            IN  /\ HasCgpaViolation(LoadedRows[i])
                       <=> (cgpa # "" /\ ~InRange0(parseFloat(cgpa), 10))
                /\ HasAttendanceViolation(LoadedRows[i])
                       <=> (attendance # "" /\ ~InRange0(parseFloat(attendance), 100))
                /\ cgpa = "7" => ~HasCgpaViolation(LoadedRows[i])
                /\ attendance = "7" => ~HasAttendanceViolation(LoadedRows[i])
                /\ cgpa \in { "101", "STU001" } => HasCgpaViolation(LoadedRows[i])
                /\ attendance \in { "101", "STU001" }
                       => HasAttendanceViolation(LoadedRows[i])

\* a file was loaded with a row whose GPA and attendance are above their
\* ranges and a row whose GPA and attendance are within them
C23_Witness ==
    /\ LoadStored
    /\ \E i \in DOMAIN LoadedRows :
          /\ LoadedRows[i].data["cgpa"] = "101"
          /\ LoadedRows[i].data["attendance_percentage"] = "101"
          /\ HasCgpaViolation(LoadedRows[i])
          /\ HasAttendanceViolation(LoadedRows[i])
    /\ \E i \in DOMAIN LoadedRows :
          /\ LoadedRows[i].data["cgpa"] = "7"
          /\ ~HasCgpaViolation(LoadedRows[i])
          /\ ~HasAttendanceViolation(LoadedRows[i])

(***************************************************************************)
(* Properties of the commit and of the save (Spec)                         *)
(***************************************************************************)
\* s with every run of whitespace replaced by one space
RECURSIVE CollapseWhitespace(_)
CollapseWhitespace(s) ==
    IF s = "" THEN ""
    ELSE IF IsWhitespace(Head(s))
         THEN (IF TrimStart(s) = "" THEN "" ELSE " " \o CollapseWhitespace(TrimStart(s)))
         ELSE Head(s) \o CollapseWhitespace(Tail(s))

\* first is the first token of the name and last its other tokens, joined
\* by single spaces
IsNameSplit(name, first, last) ==
    /\ \A k \in 1..Len(first) : ~IsWhitespace(CharAt(first, k))
    /\ CollapseWhitespace(Trim(name)) = IF last = "" THEN first ELSE first \o " " \o last

\* the rows of a batch without violation
CleanRowsOf(rows) == { rows[i] : i \in { k \in DOMAIN rows : rows[k].errors = << >> } }

\* the students a step has added to the collection
Created == { d.fields : d \in studentsDb' \ studentsDb }

IsRejectedCommitStep == IsCommitStep /\ ~save'.commitOk

\* C25 -- Commit-time persistence errors are reported through the counts
\* and never retried: when the store rejects the batch, the commit persists
\* no student of the batch and returns successCount = 0 and a failureCount
\* raised by the number of rows attempted; the store is written by no step
\* other than the one commit of a save the user has started, so the rejected
\* batch is not written a second time.
C25_CommitErrorCounted ==
    [][ /\ IsRejectedCommitStep =>
              /\ studentsDb' = studentsDb
              /\ save'.successCount = 0
              /\ save'.failureCount = Cardinality(CleanRowsOf(save'.rows))
        /\ studentsDb' # studentsDb =>
              /\ IsCommitStep
              /\ save'.commitOk
              /\ events' = events + 1 ]_vars

\* the store has rejected a batch of two rows and the save has yet to finish
C25_Witness ==
    /\ save.pc = "refresh"
    /\ ~save.commitOk
    /\ save.successCount = 0
    /\ save.failureCount = 2
    /\ Cardinality(CleanRowsOf(save.rows)) = 2

\* a step of SaveFinish
IsSaveFinishStep == save.pc = "refresh" /\ save'.pc = "idle"

\* the students in the store that the save in flight has written: the
\* documents created for its rows without violation
WrittenBySave ==
    { d \in studentsDb :
        d.id \in (nextDocId - Cardinality(CleanRowsOf(save.rows)))..(nextDocId - 1) }

\* C28 -- Save outcome and preview state agree with the store: whenever the
\* save reports an error to the user, and so keeps the preview rows for a
\* retry, no student of that batch has been written to the persisted
\* collection; and the preview is cleared only after a save whose commit has
\* completed.
C28_SaveOutcomeAgrees ==
    [][ IsSaveFinishStep =>
          /\ toast'.status = "error" =>
                /\ rosterUpload' = rosterUpload
                /\ WrittenBySave = {}
          /\ (rosterUpload # << >> /\ rosterUpload' = << >>) => save.commitOk ]_vars

(***************************************************************************)
(* Properties of the re-validation of edited rows (SpecPipeline)           *)
(***************************************************************************)
\* the rows with their cell values alone: no violation, no duplicate marker
FreshRows(rows) ==
    [i \in DOMAIN rows |-> [rows[i] EXCEPT !.errors = << >>, !.duplicateOf = NoRow]]

\* the row identifier of the first row that holds the identifier of row i
FirstHolderId(rows, i) == rows[FirstHolder(rows, i)].rowId

\* C26 -- Violations are recomputed from scratch on every preview edit:
\* after any sequence of cell edits the violation list and the duplicateOf
\* marker of each row are those a fresh pass over the current cell values of
\* all rows gives; a corrected cell loses its violation, duplicateOf is
\* cleared on a row whose identifier no longer repeats an earlier row's, is
\* set exactly on the rows that carry the duplicate-id violation, and rows
\* with an empty student identifier are never marked duplicates of each
\* other.
C26_RevalidatedFromScratch ==
    PipeValidatedReady =>
        /\ pipeValOut = validateRows(FreshRows(pipeValOut))
        /\ \A i \in DOMAIN pipeValOut :
              LET row == pipeValOut[i]
              IN  /\ (row.duplicateOf # NoRow) <=> RepeatsEarlier(pipeValOut, i)
                  /\ (row.duplicateOf # NoRow)
                         <=> ("Duplicate student ID" \in Range(row.errors))
                  /\ row.duplicateOf # NoRow
                         => row.duplicateOf = FirstHolderId(pipeValOut, i)
                  /\ row.data["student_id"] = "" => row.duplicateOf = NoRow
                  /\ \A f \in DOMAIN PhoneViolation :
                         HasPhoneViolation(row, f)
                             <=> (row.data[f] # "" /\ DigitCount(row.data[f]) # 10)
                  /\ \A k \in DOMAIN requiredFields :
                         ((requiredFields[k].label \o " required") \in Range(row.errors))
                             <=> (row.data[requiredFields[k].key] = "")

\* two edits have emptied the identifiers of two rows that were marked as
\* duplicates: the second edit has cleared the marker and the violation of
\* its row, and the two rows without identifier are not marked
C26_Witness ==
    /\ PipeValidatedReady
    /\ pipeEdits = 2
    /\ \E i \in DOMAIN pipeValOut : \E j \in DOMAIN pipeValOut :
          /\ i < j
          /\ pipeValOut[i].data["student_id"] = ""
          /\ pipeValOut[j].data["student_id"] = ""
          /\ pipeValOut[i].duplicateOf = NoRow
          /\ pipeValOut[j].duplicateOf = NoRow
          /\ pipeValIn[j].duplicateOf # NoRow
          /\ "Duplicate student ID" \in Range(pipeValIn[j].errors)
          /\ "Duplicate student ID" \notin Range(pipeValOut[j].errors)

(***************************************************************************)
(* Properties of the mapping change in flight (Spec)                       *)
(***************************************************************************)
\* C27 -- A mapping change that is still in flight never overwrites the
\* result of a later user action: once the user has cleared the preview the
\* roster upload state stays empty until a new file is loaded, and once the
\* user has loaded a new file the stored columns, original rows and preview
\* rows are those of the new file, even if a mapping change started on the
\* previous state completes afterwards.
C27_InFlightMappingHarmless ==
    [][ /\ (rosterUpload = << >> /\ rosterUpload' # << >>) => IsLoadStep
        /\ (IsMappingCompleteStep /\ rosterUpload # << >>) =>
              /\ rosterUpload' # << >>
              /\ rosterUpload'[1].columns = rosterUpload[1].columns
              /\ rosterUpload'[1].originalRows = rosterUpload[1].originalRows
              /\ RowIdsOf(rosterUpload'[1].rows) = RowIdsOf(rosterUpload[1].originalRows)
      ]_vars

(***************************************************************************)
(* Properties of the quick send (SpecSms)                                  *)
(***************************************************************************)
\* the positions, from 1, of the batches that hold the number
BatchesHolding(numbers, phone) ==
    { k \in 1..BatchCount(numbers) : phone \in Range(BatchOf(numbers, k - 1)) }

\* the vendor has accepted a batch that holds the phone, and the request of
\* that batch carried the number of the phone
AcceptedAndForwarded(phone) ==
    \E k \in BatchesHolding(phoneNumbers(smsTargets), phone) :
        /\ smsResults[k]
        /\ CleanNumber(phone) \in Range(smsForwarded[k])

\* how many notifications are logged as sent
SentLogged ==
    Cardinality({ i \in DOMAIN smsNotifications : smsNotifications[i].status = "sent" })

\* one result per batch of 6 numbers, in batch order: the result of a batch
\* is TRUE only if its request went out, and every request carried numbers
\* of its own batch
OneResultPerBatch ==
    /\ Len(smsResults) = BatchCount(phoneNumbers(smsTargets))
    /\ Len(smsForwarded) = Len(smsResults)
    /\ \A k \in DOMAIN smsResults :
          /\ smsResults[k] => smsForwarded[k] # << >>
          /\ Range(smsForwarded[k]) \subseteq
                { CleanNumber(num) : num \in Range(BatchOf(phoneNumbers(smsTargets), k - 1)) }

\* C29 -- Quick-send accounting: for every target list and every per-batch
\* vendor outcome, sendBulkSMS returns one result per batch of 6 numbers in
\* batch order, going on after a failed batch; a notification is logged as
\* "sent" only for a student whose phone number was in a batch the vendor
\* accepted and was forwarded to the vendor; the returned sentCount is the
\* number of notifications logged as "sent"; sentCount + failedCount =
\* totalCount.
C29_QuickSendAccounting ==
    /\ smsPc \in { "sent", "done" } => OneResultPerBatch
    /\ smsPc = "done" =>
          /\ Len(smsNotifications) = Len(smsTargets)
          /\ \A i \in DOMAIN smsNotifications :
                smsNotifications[i].status = "sent"
                    => AcceptedAndForwarded(smsNotifications[i].parentPhone)
          /\ smsReturn.sentCount = SentLogged
          /\ smsReturn.sentCount + smsReturn.failedCount = smsReturn.totalCount
          /\ smsReturn.totalCount = Len(smsTargets)

(***************************************************************************)
(* Properties of the biometric feed (SpecFeed)                             *)
(***************************************************************************)
\* C30 -- Biometric feed lifecycle: after any sequence of subscribe calls
\* and calls of the returned unsubscribe functions, the simulated event
\* timer is running if and only if at least one listener is registered; it
\* is started at most once while listeners exist and is stopped when the
\* last listener is removed.
C30_FeedLifecycle ==
    /\ (feedTimers # {}) <=> (biometricListeners # {})
    /\ Cardinality(feedTimers) <= 1
    /\ feedTimers = IF biometricIntervalId = NoTimer THEN {} ELSE {biometricIntervalId}
    /\ feedStarts <= 1
    /\ biometricListeners # {} => feedStarts = 1

\* a listener was subscribed twice, unsubscribed and subscribed again next
\* to another one: the timer runs, under its second id
C30_Witness ==
    /\ Cardinality(biometricListeners) = 2
    /\ feedClosures = biometricListeners
    /\ feedOps >= 4
    /\ feedTimers = {2}
    /\ feedEvents > 0

====
